---- MODULE Spec2Model ----
(***************************************************************************)
(* Version-history inference: pairwise snapshot diffing, asymmetric        *)
(* divergence scoring, the comparison driver, the spanning-arborescence    *)
(* solver and the forest assembler.                                        *)
(*                                                                         *)
(* Divergences are f32 in the program and are computed here digit for      *)
(* digit; a stored divergence is written as its whole number of 2^-23.     *)
(* Option<T> is a sequence of length at most one: None is << >> and        *)
(* Some(x) is <<x>>.                                                       *)
(***************************************************************************)
EXTENDS Integers, Sequences, FiniteSets, TLC

None == << >>
Some(x) == <<x>>

RECURSIVE SumOver(_, _)
SumOver(S, f) ==
    IF S = {} THEN 0
    ELSE LET x == CHOOSE y \in S : TRUE IN f[x] + SumOver(S \ {x}, f)

(***************************************************************************)
(* Data model.  A text is the sequence of its lines; "" is << >>.  A       *)
(* FileData is [text_content: Option<text>]; a Version is [name, files]    *)
(* with files a function from the paths it holds to FileData (the opaque   *)
(* origin path plays no part in inference and is left out).                *)
(***************************************************************************)
Insert == "Insert"
Delete == "Delete"

TextChange(tag, old_index, new_index, value) ==
    [tag |-> tag, old_index |-> old_index, new_index |-> new_index, value |-> value]

FileChange(filename, changes) == [filename |-> filename, changes |-> changes]

\* as TextOrEmpty, but non-text content is given a placeholder text
TextOrPlaceholder(file) ==
    IF file.text_content = None THEN <<"<non-text>">> ELSE file.text_content[1]

\* text_content.as_deref().unwrap_or("")
TextOrEmpty(file) == IF file.text_content = None THEN << >> ELSE file.text_content[1]

(***************************************************************************)
(* The diff primitive.  TextDiff::from_lines of the similar crate is a     *)
(* Myers line diff: a shortest edit script, so the lines it keeps form a   *)
(* longest common subsequence; a replaced line is reported as its Delete   *)
(* followed by its Insert.                                                 *)
(***************************************************************************)
InSeq(x, sq) == \E k \in 1 .. Len(sq) : sq[k] = x

RECURSIVE Lcs(_, _)
Lcs(a, b) ==
    IF a = << >> \/ b = << >> THEN 0
    ELSE IF Head(a) = Head(b) THEN 1 + Lcs(Tail(a), Tail(b))
    ELSE IF ~InSeq(Head(a), b) THEN Lcs(Tail(a), b)
    ELSE IF ~InSeq(Head(b), a) THEN Lcs(a, Tail(b))
    ELSE LET l == Lcs(Tail(a), b)
             r == Lcs(a, Tail(b))
         IN IF l >= r THEN l ELSE r

\* The non-Equal changes from line i of old and line j of new on.
RECURSIVE LineChanges(_, _, _, _)
LineChanges(old, new, i, j) ==
    IF i > Len(old) /\ j > Len(new) THEN << >>
    ELSE IF i > Len(old)
         THEN <<TextChange(Insert, None, Some(j - 1), new[j])>> \o LineChanges(old, new, i, j + 1)
    ELSE IF j > Len(new)
         THEN <<TextChange(Delete, Some(i - 1), None, old[i])>> \o LineChanges(old, new, i + 1, j)
    ELSE IF old[i] = new[j] THEN LineChanges(old, new, i + 1, j + 1)
    ELSE IF Lcs(SubSeq(old, i + 1, Len(old)), SubSeq(new, j, Len(new)))
              >= Lcs(SubSeq(old, i, Len(old)), SubSeq(new, j + 1, Len(new)))
         THEN <<TextChange(Delete, Some(i - 1), None, old[i])>> \o LineChanges(old, new, i + 1, j)
    ELSE <<TextChange(Insert, None, Some(j - 1), new[j])>> \o LineChanges(old, new, i, j + 1)

push_text_diff_changes(old, new, buffer) == buffer \o LineChanges(old, new, 1, 1)

(***************************************************************************)
(* The snapshot differ.  old_order and new_order are the orders in which   *)
(* the two HashMaps happen to iterate: sequences listing each map's paths  *)
(* once.                                                                   *)
(***************************************************************************)
\* as OldFilesLoop, but a file found in both snapshots is always pushed to
\* modified_files
RECURSIVE OldFilesLoopNoCompare(_, _, _, _)
OldFilesLoopNoCompare(old, new, order, diff) ==
    IF order = << >> THEN diff
    ELSE LET file_name == Head(order)
             old_text == TextOrEmpty(old.files[file_name])
         IN IF file_name \in DOMAIN new.files
            THEN OldFilesLoopNoCompare(old, new, Tail(order),
                    [diff EXCEPT !.modified_files =
                        Append(@, FileChange(file_name,
                            push_text_diff_changes(old_text,
                                TextOrEmpty(new.files[file_name]), << >>)))])
            ELSE OldFilesLoopNoCompare(old, new, Tail(order),
                    [diff EXCEPT !.deleted_files =
                        Append(@, FileChange(file_name,
                            push_text_diff_changes(old_text, << >>, << >>)))])

RECURSIVE OldFilesLoop(_, _, _, _)
OldFilesLoop(old, new, order, diff) ==
    IF order = << >> THEN diff
    ELSE LET file_name == Head(order)
             old_text == TextOrEmpty(old.files[file_name])
         IN IF file_name \in DOMAIN new.files
            THEN LET new_text == TextOrEmpty(new.files[file_name])
                 IN IF old_text # new_text
                    THEN OldFilesLoop(old, new, Tail(order),
                            [diff EXCEPT !.modified_files =
                                Append(@, FileChange(file_name,
                                    push_text_diff_changes(old_text, new_text, << >>)))])
                    ELSE OldFilesLoop(old, new, Tail(order), diff)
            ELSE OldFilesLoop(old, new, Tail(order),
                    [diff EXCEPT !.deleted_files =
                        Append(@, FileChange(file_name,
                            push_text_diff_changes(old_text, << >>, << >>)))])

\* as NewFilesLoop, but a file only in new is pushed to modified_files
RECURSIVE NewFilesLoopAsModified(_, _, _, _)
NewFilesLoopAsModified(old, new, order, diff) ==
    IF order = << >> THEN diff
    ELSE LET file_name == Head(order)
         IN IF file_name \in DOMAIN old.files
            THEN NewFilesLoopAsModified(old, new, Tail(order), diff)
            ELSE NewFilesLoopAsModified(old, new, Tail(order),
                    [diff EXCEPT !.modified_files =
                        Append(@, FileChange(file_name,
                            push_text_diff_changes(<< >>, TextOrEmpty(new.files[file_name]), << >>)))])

RECURSIVE NewFilesLoop(_, _, _, _)
NewFilesLoop(old, new, order, diff) ==
    IF order = << >> THEN diff
    ELSE LET file_name == Head(order)
         IN IF file_name \in DOMAIN old.files
            THEN NewFilesLoop(old, new, Tail(order), diff)
            ELSE NewFilesLoop(old, new, Tail(order),
                    [diff EXCEPT !.added_files =
                        Append(@, FileChange(file_name,
                            push_text_diff_changes(<< >>, TextOrEmpty(new.files[file_name]), << >>)))])

text_diff_versions(old, new, old_order, new_order) ==
    NewFilesLoop(old, new, new_order,
        OldFilesLoop(old, new, old_order,
            [added_files |-> << >>, deleted_files |-> << >>, modified_files |-> << >>]))

\* The iteration orders a map over the path set S may have.
Orders(S) ==
    {o \in [1 .. Cardinality(S) -> S] : \A p \in S : \E k \in DOMAIN o : o[k] = p}

\* The iteration orders of the files maps of a snapshot vector: a HashMap
\* seeds its hasher when it is built, so each map has an order of its own,
\* the same every time that map is walked.
WalksOf(vs) ==
    {w \in [1 .. Len(vs) -> UNION {Orders(DOMAIN vs[k].files) : k \in 1 .. Len(vs)}] :
        \A k \in 1 .. Len(vs) : w[k] \in Orders(DOMAIN vs[k].files)}

(***************************************************************************)
(* f32 arithmetic.  A positive f32 is <<m, e>>, standing for m * 2^e with  *)
(* a 24-bit mantissa 2^23 <= m < 2^24; zero is <<0, 0>>.  Sums and         *)
(* products are rounded to the nearest f32, ties to even, as the hardware  *)
(* does; no value of the scorer is negative, subnormal or infinite.        *)
(***************************************************************************)
Pow2(k) == 2 ^ k

MANTISSA_DIGITS == 24

F32(m, e) == <<m, e>>
F32_ZERO == F32(0, 0)

\* num / d to the nearest integer, ties to even
RoundHalfEven(num, d) ==
    LET q == num \div d
        r == num % d
    IN IF 2 * r > d \/ (2 * r = d /\ q % 2 = 1) THEN q + 1 ELSE q

\* how many binary digits v has beyond the 24 of a mantissa
RECURSIVE ExcessDigits(_)
ExcessDigits(v) == IF v < Pow2(MANTISSA_DIGITS) THEN 0 ELSE 1 + ExcessDigits(v \div 2)

\* the f32 nearest to v * 2^e, for an integer 0 <= v < 2^30
RECURSIVE F32Round(_, _)
F32Round(v, e) ==
    IF v = 0 THEN F32_ZERO
    ELSE IF v < Pow2(MANTISSA_DIGITS - 1) THEN F32Round(2 * v, e - 1)
    ELSE LET k == ExcessDigits(v)
             q == RoundHalfEven(v, Pow2(k))
         IN IF q = Pow2(MANTISSA_DIGITS) THEN F32(Pow2(MANTISSA_DIGITS - 1), e + k + 1)
            ELSE F32(q, e + k)

\* x + y: the smaller operand is shifted to the larger one's exponent with
\* three more digits, the last of them sticky, and the sum is rounded
f32_add(x, y) ==
    IF x = F32_ZERO THEN y
    ELSE IF y = F32_ZERO THEN x
    ELSE LET hi == IF x[2] >= y[2] THEN x ELSE y
             lo == IF x[2] >= y[2] THEN y ELSE x
             s == hi[2] - lo[2]
         IN IF s > MANTISSA_DIGITS THEN hi
            ELSE LET shifted == (8 * lo[1]) \div Pow2(s)
                     sticky == (8 * lo[1]) % Pow2(s) # 0
                     v == 8 * hi[1] + shifted
                 IN F32Round(IF sticky /\ v % 2 = 0 THEN v + 1 ELSE v, hi[2] - 3)

\* m * 2^e without the trailing zero digits of m
RECURSIVE Odd(_)
Odd(x) == IF x[1] # 0 /\ x[1] % 2 = 0 THEN Odd(<<x[1] \div 2, x[2] + 1>>) ELSE x

\* x * y, for operands whose exact product has at most 30 digits
f32_mul(x, y) == F32Round(Odd(x)[1] * Odd(y)[1], Odd(x)[2] + Odd(y)[2])

\* k as f32, exact for a count below 2^24
usize_as_f32(k) == F32Round(k, 0)

\* An f32 that is zero or at least 1 is a whole number of 2^-23; the scorer's
\* results are such values and are written as that whole number.
Ticks(x) == IF x = F32_ZERO THEN 0 ELSE x[1] * Pow2(x[2] + MANTISSA_DIGITS - 1)

(***************************************************************************)
(* Numbers in JSON text.  A decimal is its whole part and the digits after *)
(* the point.  serde_json writes a usize with itoa and an f32 with ryu     *)
(* (the shortest decimal that reads back as the same f32, the closest one  *)
(* of that length), and reads a number into an f64 that is cast to f32.    *)
(***************************************************************************)
Decimal(whole, frac) == [whole |-> whole, frac |-> frac]

RECURSIVE FloorLog2(_)
FloorLog2(k) == IF k < 2 THEN 0 ELSE 1 + FloorLog2(k \div 2)

\* the distance, in 2^-23, from the f32 t * 2^-23 to the next f32 above it
Ulp(t) == Pow2(FloorLog2(t) - (MANTISSA_DIGITS - 1))

\* the first k digits after the point of rem / den, for rem < den
RECURSIVE DigitsOf(_, _, _)
DigitsOf(rem, den, k) ==
    IF k = 0 THEN << >>
    ELSE <<(rem * 10) \div den>> \o DigitsOf((rem * 10) % den, den, k - 1)

Exact(num, den, k) == Decimal(num \div den, DigitsOf(num % den, den, k))

RECURSIVE DigitsLess(_, _)
DigitsLess(a, b) ==
    IF a = << >> \/ b = << >> THEN FALSE
    ELSE Head(a) < Head(b) \/ (Head(a) = Head(b) /\ DigitsLess(Tail(a), Tail(b)))

Padded(frac, k) == frac \o [i \in 1 .. (k - Len(frac)) |-> 0]

DecLess(a, b) ==
    LET k == IF Len(a.frac) >= Len(b.frac) THEN Len(a.frac) ELSE Len(b.frac)
    IN \/ a.whole < b.whole
       \/ a.whole = b.whole /\ DigitsLess(Padded(a.frac, k), Padded(b.frac, k))

\* one more in the last place; the result is <<carry, digits>>
RECURSIVE BumpDigits(_)
BumpDigits(frac) ==
    IF frac = << >> THEN <<1, << >>>>
    ELSE LET k == Len(frac)
         IN IF frac[k] < 9 THEN <<0, [frac EXCEPT ![k] = frac[k] + 1]>>
            ELSE LET front == BumpDigits(SubSeq(frac, 1, k - 1))
                 IN <<front[1], Append(front[2], 0)>>

Bump(d) == Decimal(d.whole + BumpDigits(d.frac)[1], BumpDigits(d.frac)[2])

AllZero(digits) == \A k \in DOMAIN digits : digits[k] = 0

\* ryu: t * 2^-23 with the fewest digits that still lie between the halfway
\* points to the neighbouring f32s (the halfway points themselves count when
\* the mantissa is even); of the two candidates of that length the nearer one,
\* a tie going to the even digit
RECURSIVE Shortest(_, _, _, _, _)
Shortest(v, lo, hi, even, k) ==
    LET down == Decimal(v.whole, SubSeq(v.frac, 1, k))
        up == Bump(down)
        rest == SubSeq(v.frac, k + 1, Len(v.frac))
        Within(d) == IF even THEN ~DecLess(d, lo) /\ ~DecLess(hi, d)
                     ELSE DecLess(lo, d) /\ DecLess(d, hi)
        last == IF k = 0 THEN down.whole ELSE down.frac[k]
        nearer_down == \/ AllZero(rest)
                       \/ rest[1] < 5
                       \/ rest[1] = 5 /\ AllZero(Tail(rest)) /\ last % 2 = 0
    IN IF Within(down) /\ (nearer_down \/ ~Within(up)) THEN down
       ELSE IF Within(up) THEN up
       ELSE Shortest(v, lo, hi, even, k + 1)

\* format_finite(f32), the f32 given as t * 2^-23; "2.0" for a whole number
format_f32(t) ==
    IF t = 0 THEN Decimal(0, <<0>>)
    ELSE LET den == Pow2(MANTISSA_DIGITS + 1)
             below == IF t = Pow2(FloorLog2(t)) THEN Ulp(t) ELSE 2 * Ulp(t)
             d == Shortest(Exact(4 * t, den, MANTISSA_DIGITS + 1),
                           Exact(4 * t - below, den, MANTISSA_DIGITS + 1),
                           Exact(4 * t + 2 * Ulp(t), den, MANTISSA_DIGITS + 1),
                           (t \div Ulp(t)) % 2 = 0, 0)
         IN IF d.frac = << >> THEN Decimal(d.whole, <<0>>) ELSE d

\* twice a decimal, c carried into its last place; the number of digits
\* after the point stays
RECURSIVE DoubleDigits(_, _)
DoubleDigits(frac, c) ==
    IF frac = << >> THEN <<c, << >>>>
    ELSE LET k == Len(frac)
             x == 2 * frac[k] + c
             front == DoubleDigits(SubSeq(frac, 1, k - 1), x \div 10)
         IN <<front[1], Append(front[2], x % 10)>>

RECURSIVE TimesPow2(_, _)
TimesPow2(d, k) ==
    LET twice == DoubleDigits(d.frac, 0)
    IN IF k = 0 THEN d
       ELSE IF twice[1] = 0 THEN TimesPow2(Decimal(2 * d.whole, twice[2]), k - 1)
       ELSE TimesPow2(Decimal(2 * d.whole + 1, twice[2]), k - 1)

F64_MANTISSA_DIGITS == 53

\* to the nearest whole number, a tie going to the even one
NearestEven(d) ==
    LET up == \/ d.frac # << >> /\ Head(d.frac) > 5
              \/ d.frac # << >> /\ Head(d.frac) = 5 /\ ~AllZero(Tail(d.frac))
              \/ d.frac # << >> /\ Head(d.frac) = 5 /\ AllZero(Tail(d.frac))
                    /\ d.whole % 2 = 1
    IN IF up THEN d.whole + 1 ELSE d.whole

\* the decimal read as f64 (the nearest one) and cast to f32 (the nearest
\* one again), for a decimal that is zero or at least 1; the result in 2^-23.
\* below is the f32 at or under the decimal, sub the place of the f64 between
\* below and the next f32, counted in f64 steps.
parse_f32(d) ==
    IF d.whole = 0 THEN 0
    ELSE LET step == Pow2(FloorLog2(d.whole))
             scaled == TimesPow2(d, MANTISSA_DIGITS - 1)
             below == (scaled.whole \div step) * step
             finer == F64_MANTISSA_DIGITS - MANTISSA_DIGITS - FloorLog2(d.whole)
             sub == NearestEven(TimesPow2(Decimal(scaled.whole - below, scaled.frac), finer))
             half == Pow2(F64_MANTISSA_DIGITS - MANTISSA_DIGITS - 1)
         IN IF sub < half THEN below
            ELSE IF sub > half THEN below + step
            ELSE IF (below \div step) % 2 = 0 THEN below ELSE below + step

\* itoa: the decimal digits of k; and the number they spell
RECURSIVE itoa(_)
itoa(k) == IF k < 10 THEN <<k>> ELSE Append(itoa(k \div 10), k % 10)

RECURSIVE parse_u64(_)
parse_u64(digits) ==
    IF digits = << >> THEN 0
    ELSE 10 * parse_u64(SubSeq(digits, 1, Len(digits) - 1)) + digits[Len(digits)]

(***************************************************************************)
(* The divergence scorer.                                                  *)
(***************************************************************************)
ADD_FILE_P == F32(8388608, -22)
DELETE_FILE_P == F32(8388608, -21)
MODIFY_FILE_P == F32(8388608, -23)
\* the f32 nearest to 0.02 and the one nearest to 0.05
ADD_LINE_P == F32(10737418, -29)
DELETE_LINE_P == F32(13421773, -28)
LINE_CAP == 50

Pair(a, b) == <<a, b>>
PairAdd(p, q) == <<f32_add(p[1], q[1]), f32_add(p[2], q[2])>>

Min(a, b) == IF a <= b THEN a ELSE b

count_tag(changes, tag) == Cardinality({k \in 1 .. Len(changes) : changes[k].tag = tag})

\* as file_heuristic, but the line penalties of the two directions are swapped
file_heuristic_swapped(file_change) ==
    LET adds == usize_as_f32(Min(count_tag(file_change.changes, Insert), LINE_CAP))
        deletes == usize_as_f32(Min(count_tag(file_change.changes, Delete), LINE_CAP))
    IN Pair(f32_add(f32_mul(adds, DELETE_LINE_P), f32_mul(deletes, ADD_LINE_P)),
            f32_add(f32_mul(adds, ADD_LINE_P), f32_mul(deletes, DELETE_LINE_P)))

\* as file_heuristic, but only the inserted lines are capped
file_heuristic_deletes_uncapped(file_change) ==
    LET adds == usize_as_f32(Min(count_tag(file_change.changes, Insert), LINE_CAP))
        deletes == usize_as_f32(count_tag(file_change.changes, Delete))
    IN Pair(f32_add(f32_mul(adds, ADD_LINE_P), f32_mul(deletes, DELETE_LINE_P)),
            f32_add(f32_mul(adds, DELETE_LINE_P), f32_mul(deletes, ADD_LINE_P)))

file_heuristic(file_change) ==
    LET adds == usize_as_f32(Min(count_tag(file_change.changes, Insert), LINE_CAP))
        deletes == usize_as_f32(Min(count_tag(file_change.changes, Delete), LINE_CAP))
    IN Pair(f32_add(f32_mul(adds, ADD_LINE_P), f32_mul(deletes, DELETE_LINE_P)),
            f32_add(f32_mul(adds, DELETE_LINE_P), f32_mul(deletes, ADD_LINE_P)))

\* for file_change in files { acc += penalty; acc += file_heuristic(file_change) }
RECURSIVE PenaltyLoop(_, _, _)
PenaltyLoop(files, penalty, acc) ==
    IF files = << >> THEN acc
    ELSE PenaltyLoop(Tail(files), penalty,
            PairAdd(PairAdd(acc, penalty), file_heuristic(Head(files))))

DivCalcResult(added, deleted, modified, divergence) ==
    [added |-> added, deleted |-> deleted, modified |-> modified,
     divergence |-> Ticks(divergence)]

\* as calculate_divergences, but backward repeats forward's added and deleted
calculate_divergences_unswapped(diff) ==
    LET forward_backward ==
            PenaltyLoop(diff.modified_files, Pair(MODIFY_FILE_P, MODIFY_FILE_P),
                PenaltyLoop(diff.deleted_files, Pair(DELETE_FILE_P, ADD_FILE_P),
                    PenaltyLoop(diff.added_files, Pair(ADD_FILE_P, DELETE_FILE_P),
                        Pair(F32_ZERO, F32_ZERO))))
        added == Len(diff.added_files)
        deleted == Len(diff.deleted_files)
        modified == Len(diff.modified_files)
    IN <<DivCalcResult(added, deleted, modified, forward_backward[1]),
         DivCalcResult(added, deleted, modified, forward_backward[2])>>

calculate_divergences(text_diff) ==
    LET forward_backward ==
            PenaltyLoop(text_diff.modified_files, Pair(MODIFY_FILE_P, MODIFY_FILE_P),
                PenaltyLoop(text_diff.deleted_files, Pair(DELETE_FILE_P, ADD_FILE_P),
                    PenaltyLoop(text_diff.added_files, Pair(ADD_FILE_P, DELETE_FILE_P),
                        Pair(F32_ZERO, F32_ZERO))))
        added == Len(text_diff.added_files)
        deleted == Len(text_diff.deleted_files)
        modified == Len(text_diff.modified_files)
    IN <<DivCalcResult(added, deleted, modified, forward_backward[1]),
         DivCalcResult(deleted, added, modified, forward_backward[2])>>

(***************************************************************************)
(* The arborescence solver.  find_msa negates the matrix and hands it to   *)
(* chu_liu_edmonds of the chu_liu_edmonds crate, a MAXIMUM spanning        *)
(* arborescence solver over scores[(parent, child)].  The crate is the     *)
(* classical contraction algorithm; its tie-breaks are not fixed by this   *)
(* repository, so every choice among equal scores is left open and the     *)
(* operators return the SET of parent vectors the solver may produce.      *)
(***************************************************************************)

\* TRUE iff following the chosen parents from cur reaches target before it
\* reaches the root or runs into some other cycle.
RECURSIVE Reaches(_, _, _, _, _)
Reaches(g, root, target, cur, seen) ==
    IF cur = target THEN TRUE
    ELSE IF cur = root \/ cur \in seen THEN FALSE
    ELSE Reaches(g, root, target, g[cur], seen \cup {cur})

RECURSIVE Orbit(_, _, _)
Orbit(g, v, acc) == IF v \in acc THEN acc ELSE Orbit(g, g[v], acc \cup {v})

\* The cycles of the greedy choice g (each as the set of its nodes).
Cycles(g, root, nodes) ==
    {Orbit(g, v, {}) : v \in {w \in nodes \ {root} : Reaches(g, root, w, g[w], {})}}

\* final_edges[child] = parent for the original edge behind each chosen edge
\* into a node of S.
RECURSIVE PutEdges(_, _, _, _)
PutEdges(S, g, orig, final) ==
    IF S = {} THEN final
    ELSE LET v == CHOOSE y \in S : TRUE
             e == orig[<<g[v], v>>]
         IN PutEdges(S \ {v}, g, orig, [final EXCEPT ![e[2]] = Some(e[1])])

\* nodes: the current (contracted) nodes; sc: their scores; orig: the original
\* edge each current edge stands for; reps: the original vertices each current
\* node stands for; final: the parent vector being filled in.
RECURSIVE CLE(_, _, _, _, _, _)
CLE(nodes, sc, orig, reps, root, final) ==
    LET nonroot == nodes \ {root}
        BestIn(v) == {u \in nodes \ {v} :
                        \A w \in nodes \ {v} : sc[<<u, v>>] >= sc[<<w, v>>]}
        Greedy == {g \in [nonroot -> nodes] : \A v \in nonroot : g[v] \in BestIn(v)}
        Contract(g, C) ==
            LET rep == CHOOSE c \in C : \A d \in C : c <= d
                rest == nodes \ C
                cw == SumOver(C, [w \in C |-> sc[<<g[w], w>>]])
                InScore(u, w) == sc[<<w, u>>]
                OutScore(u, w) == cw + sc[<<u, w>>] - sc[<<g[w], w>>]
                ArgIn(u) == {w \in C : \A y \in C : InScore(u, w) >= InScore(u, y)}
                ArgOut(u) == {w \in C : \A y \in C : OutScore(u, w) >= OutScore(u, y)}
                InSel == {s \in [rest \ {root} -> C] : \A u \in rest \ {root} : s[u] \in ArgIn(u)}
                OutSel == {s \in [rest -> C] : \A u \in rest : s[u] \in ArgOut(u)}
                nodes2 == rest \cup {rep}
                reps2 == [n \in nodes2 |->
                            IF n = rep THEN UNION {reps[w] : w \in C} ELSE reps[n]]
                Sc2(i, o) == [e \in nodes2 \X nodes2 |->
                    IF e[2] = root \/ e[1] = e[2] THEN sc[e]
                    ELSE IF e[1] = rep THEN InScore(e[2], i[e[2]])
                    ELSE IF e[2] = rep THEN OutScore(e[1], o[e[1]])
                    ELSE sc[e]]
                Orig2(i, o) == [e \in nodes2 \X nodes2 |->
                    IF e[2] = root \/ e[1] = e[2] THEN orig[e]
                    ELSE IF e[1] = rep THEN orig[<<i[e[2]], e[2]>>]
                    ELSE IF e[2] = rep THEN orig[<<e[1], o[e[1]]>>]
                    ELSE orig[e]]
                \* the cycle node entered from outside keeps that edge; the
                \* others keep their cycle edge
                Expand(f) ==
                    LET key == CHOOSE w \in C : \E y \in reps[w] : f[y] # None
                    IN PutEdges(C \ {key}, g, orig, f)
            IN UNION {UNION {
                   {Expand(f) : f \in CLE(nodes2, Sc2(i, o), Orig2(i, o), reps2, root, final)}
                   : o \in OutSel} : i \in InSel}
    IN UNION {IF Cycles(g, root, nodes) = {} THEN {PutEdges(nonroot, g, orig, final)}
              ELSE UNION {Contract(g, C) : C \in Cycles(g, root, nodes)}
              : g \in Greedy}

chu_liu_edmonds(scores, n, root_vertex) ==
    LET V == 0 .. (n - 1) IN
    CLE(V, scores, [e \in V \X V |-> e], [v \in V |-> {v}], root_vertex,
        [v \in V |-> None])

\* as find_msa, but the solver is always rooted at vertex 0
find_msa_root_zero(scores, n, root_vertex) ==
    chu_liu_edmonds([e \in (0 .. (n - 1)) \X (0 .. (n - 1)) |-> scores[e] * (-1)], n, 0)

\* as find_msa, but the scores are handed over without the negation
find_msa_not_negated(scores, n, root_vertex) ==
    chu_liu_edmonds(scores, n, root_vertex)

\* as find_msa, but the matrix is read as scores[(child, parent)]
find_msa_transposed(scores, n, root_vertex) ==
    chu_liu_edmonds([e \in (0 .. (n - 1)) \X (0 .. (n - 1)) |-> scores[<<e[2], e[1]>>] * (-1)],
                    n, root_vertex)

find_msa(scores, n, root_vertex) ==
    chu_liu_edmonds([e \in (0 .. (n - 1)) \X (0 .. (n - 1)) |-> scores[e] * (-1)], n, root_vertex)

\* The two matrices of the solver's unit tests.
SimpleMst == <<<<0, 99, 100, 100>>, <<99, 0, 1, 1>>, <<100, 1, 0, 5>>, <<100, 1, 5, 0>>>>
SimpleMsa == <<<<0, 99, 100, 99>>, <<99, 0, 10, 10>>, <<100, 1, 0, 5>>, <<99, 2, 5, 0>>>>
Arr2(rows) ==
    [e \in (0 .. (Len(rows) - 1)) \X (0 .. (Len(rows) - 1)) |-> rows[e[1] + 1][e[2] + 1]]

(***************************************************************************)
(* Trees.  A TreeNode is [value, children] with children a sequence of     *)
(* TreeNodes.                                                              *)
(***************************************************************************)
TreeNode(value, children) == [value |-> value, children |-> children]

\* Convert tree in vector-of-parents form to a forest; AssembleLoop is the
\* for loop from index `this` on.
RECURSIVE assemble_forest(_, _, _)
RECURSIVE AssembleLoop(_, _, _, _, _)
AssembleLoop(parents, len, parent, this, forest) ==
    IF this >= len THEN forest
    ELSE IF parents[this] = parent
         THEN AssembleLoop(parents, len, parent, this + 1,
                Append(forest, TreeNode(this, assemble_forest(parents, len, Some(this)))))
    ELSE AssembleLoop(parents, len, parent, this + 1, forest)

\* as assemble_forest, but the loop starts at the second entry
assemble_forest_from_second(parents, len, parent) == AssembleLoop(parents, len, parent, 1, << >>)

assemble_forest(parents, len, parent) == AssembleLoop(parents, len, parent, 0, << >>)

\* f is the closure, as a function of <<value, parent>>.
RECURSIVE map_with_parent(_, _, _)
map_with_parent(node, f, parent) ==
    TreeNode(f[<<node.value, parent>>],
             [k \in 1 .. Len(node.children) |->
                 map_with_parent(node.children[k], f, Some(node.value))])

\* impl PartialEq for TreeNode: after the value and the number of children,
\* every child of self looks for some equal child of other ('outer loop); a
\* child of other that was found once stays available to the next search.
RECURSIVE TreeEq(_, _)
TreeEq(self, other) ==
    IF self.value # other.value \/ Len(self.children) # Len(other.children) THEN FALSE
    ELSE \A ka \in DOMAIN self.children :
            \E kb \in DOMAIN other.children : TreeEq(self.children[ka], other.children[kb])

DiffInfo(name, forward) ==
    [name |-> name, added |-> forward.added, deleted |-> forward.deleted,
     modified |-> forward.modified, divergence |-> forward.divergence]

\* DivCalcResult::new(): the null difference (all zeroes).
DivCalcResult_new == DivCalcResult(0, 0, 0, F32_ZERO)

\* as DiffInfoClosure, but the name is read at the parent's index
DiffInfoClosureParentName(vs, dcr, len) ==
    [a \in (0 .. (len - 1)) \X ({None} \cup {Some(q) : q \in 0 .. (len - 1)}) |->
        LET i == a[1]
            p == IF a[2] = None THEN i ELSE a[2][1]
        IN DiffInfo(vs[p + 1].name, dcr[<<p, i>>])]

\* as DiffInfoClosure, but a node without a parent reads the last row
DiffInfoClosureRootLastRow(vs, dcr, len) ==
    [a \in (0 .. (len - 1)) \X ({None} \cup {Some(q) : q \in 0 .. (len - 1)}) |->
        LET i == a[1]
            p == IF a[2] = None THEN len - 1 ELSE a[2][1]
        IN DiffInfo(vs[i + 1].name, dcr[<<p, i>>])]

\* as DiffInfoClosure, but reading the cell of the opposite direction, (i, p)
DiffInfoClosureBackward(vs, dcr, len) ==
    [a \in (0 .. (len - 1)) \X ({None} \cup {Some(q) : q \in 0 .. (len - 1)}) |->
        LET i == a[1]
            p == IF a[2] = None THEN i ELSE a[2][1]
        IN DiffInfo(vs[i + 1].name, dcr[<<i, p>>])]

\* let p = parent.cloned().unwrap_or(i); DiffInfo from div_calc_res[(p, i)]
DiffInfoClosure(vs, dcr, len) ==
    [a \in (0 .. (len - 1)) \X ({None} \cup {Some(q) : q \in 0 .. (len - 1)}) |->
        LET i == a[1]
            p == IF a[2] = None THEN i ELSE a[2][1]
        IN DiffInfo(vs[i + 1].name, dcr[<<p, i>>])]

(***************************************************************************)
(* version_tree.json.  The text is kept as its sequence of tokens:         *)
(* punctuation, strings and numbers, a number as its digits before and     *)
(* after the point.                                                        *)
(***************************************************************************)
Token(kind, text, whole, frac) == [kind |-> kind, text |-> text, whole |-> whole, frac |-> frac]
Punct(c) == Token("punct", c, << >>, << >>)
JsonString(x) == Token("string", x, << >>, << >>)
JsonInteger(k) == Token("number", "", itoa(k), << >>)
JsonFloat(d) == Token("number", "", itoa(d.whole), d.frac)

\* #[derive(Serialize)] for DiffInfo: the fields in declaration order
ser_DiffInfo(v) ==
    <<Punct("{"), JsonString("name"), Punct(":"), JsonString(v.name), Punct(","),
      JsonString("added"), Punct(":"), JsonInteger(v.added), Punct(","),
      JsonString("deleted"), Punct(":"), JsonInteger(v.deleted), Punct(","),
      JsonString("modified"), Punct(":"), JsonInteger(v.modified), Punct(","),
      JsonString("divergence"), Punct(":"), JsonFloat(format_f32(v.divergence)), Punct("}")>>

\* as ser_TreeNodes, the children written last to first
RECURSIVE ser_TreeNode_reversed(_)
RECURSIVE ser_TreeNodes_reversed(_)
ser_TreeNode_reversed(node) ==
    <<Punct("{"), JsonString("value"), Punct(":")>> \o ser_DiffInfo(node.value)
        \o <<Punct(","), JsonString("children"), Punct(":"), Punct("[")>>
        \o ser_TreeNodes_reversed(node.children) \o <<Punct("]"), Punct("}")>>
ser_TreeNodes_reversed(nodes) ==
    IF nodes = << >> THEN << >>
    ELSE IF Len(nodes) = 1 THEN ser_TreeNode_reversed(nodes[1])
    ELSE ser_TreeNodes_reversed(Tail(nodes)) \o <<Punct(",")>> \o ser_TreeNode_reversed(Head(nodes))

\* #[derive(Serialize)] for TreeNode<DiffInfo>, and a Vec of them
RECURSIVE ser_TreeNode(_)
RECURSIVE ser_TreeNodes(_)
ser_TreeNode(node) ==
    <<Punct("{"), JsonString("value"), Punct(":")>> \o ser_DiffInfo(node.value)
        \o <<Punct(","), JsonString("children"), Punct(":"), Punct("[")>>
        \o ser_TreeNodes(node.children) \o <<Punct("]"), Punct("}")>>
ser_TreeNodes(nodes) ==
    IF nodes = << >> THEN << >>
    ELSE IF Len(nodes) = 1 THEN ser_TreeNode(nodes[1])
    ELSE ser_TreeNode(Head(nodes)) \o <<Punct(",")>> \o ser_TreeNodes(Tail(nodes))

\* The reader.  A result is [ok, value, rest]: whether the text so far was
\* well formed, what was read and the tokens after it.  A JSON value is
\* [type, text, number, items]; the items of an object are <<key, value>>.
Read(value, rest) == [ok |-> TRUE, value |-> value, rest |-> rest]
Malformed == [ok |-> FALSE, value |-> << >>, rest |-> << >>]
Json(type, text, number, items) ==
    [type |-> type, text |-> text, number |-> number, items |-> items]

RECURSIVE parse_value(_)
RECURSIVE parse_members(_, _)
RECURSIVE parse_elements(_, _)
parse_value(toks) ==
    IF toks = << >> THEN Malformed
    ELSE IF Head(toks).kind = "string"
         THEN Read(Json("string", Head(toks).text, << >>, << >>), Tail(toks))
    ELSE IF Head(toks).kind = "number"
         THEN Read(Json("number", "", Head(toks), << >>), Tail(toks))
    ELSE IF Head(toks) = Punct("{") THEN parse_members(Tail(toks), << >>)
    ELSE IF Head(toks) = Punct("[") THEN parse_elements(Tail(toks), << >>)
    ELSE Malformed

\* after `{` or after `,` inside an object
parse_members(toks, items) ==
    IF toks = << >> THEN Malformed
    ELSE IF Head(toks) = Punct("}") /\ items = << >>
         THEN Read(Json("object", "", << >>, items), Tail(toks))
    ELSE IF Len(toks) < 3 \/ toks[1].kind # "string" \/ toks[2] # Punct(":") THEN Malformed
    ELSE LET member == parse_value(SubSeq(toks, 3, Len(toks)))
         IN IF ~member.ok \/ member.rest = << >> THEN Malformed
            ELSE IF Head(member.rest) = Punct(",")
                 THEN parse_members(Tail(member.rest),
                                    Append(items, <<toks[1].text, member.value>>))
            ELSE IF Head(member.rest) = Punct("}")
                 THEN Read(Json("object", "", << >>,
                                Append(items, <<toks[1].text, member.value>>)),
                           Tail(member.rest))
            ELSE Malformed

\* after `[` or after `,` inside an array
parse_elements(toks, items) ==
    IF toks = << >> THEN Malformed
    ELSE IF Head(toks) = Punct("]") /\ items = << >>
         THEN Read(Json("array", "", << >>, items), Tail(toks))
    ELSE LET element == parse_value(toks)
         IN IF ~element.ok \/ element.rest = << >> THEN Malformed
            ELSE IF Head(element.rest) = Punct(",")
                 THEN parse_elements(Tail(element.rest), Append(items, element.value))
            ELSE IF Head(element.rest) = Punct("]")
                 THEN Read(Json("array", "", << >>, Append(items, element.value)),
                           Tail(element.rest))
            ELSE Malformed

\* #[derive(Deserialize)]: a field is looked up by its key, wherever it
\* stands; a missing or a repeated field is an error, an unknown one is
\* skipped.  A result is [ok, value].
Got(value) == [ok |-> TRUE, value |-> value]
Invalid == [ok |-> FALSE, value |-> << >>]

Field(object, key) ==
    LET at == {k \in DOMAIN object.items : object.items[k][1] = key}
    IN IF object.type # "object" \/ Cardinality(at) # 1 THEN Invalid
       ELSE Got(object.items[CHOOSE k \in at : TRUE][2])

de_String(field) ==
    IF ~field.ok \/ field.value.type # "string" THEN Invalid ELSE Got(field.value.text)

\* a number with a point is not a usize
de_usize(field) ==
    IF ~field.ok \/ field.value.type # "number" \/ field.value.number.frac # << >> THEN Invalid
    ELSE Got(parse_u64(field.value.number.whole))

de_f32(field) ==
    IF ~field.ok \/ field.value.type # "number" THEN Invalid
    ELSE Got(parse_f32(Decimal(parse_u64(field.value.number.whole), field.value.number.frac)))

de_DiffInfo(field) ==
    IF ~field.ok THEN Invalid
    ELSE LET name == de_String(Field(field.value, "name"))
             added == de_usize(Field(field.value, "added"))
             deleted == de_usize(Field(field.value, "deleted"))
             modified == de_usize(Field(field.value, "modified"))
             divergence == de_f32(Field(field.value, "divergence"))
         IN IF name.ok /\ added.ok /\ deleted.ok /\ modified.ok /\ divergence.ok
            THEN Got([name |-> name.value, added |-> added.value, deleted |-> deleted.value,
                      modified |-> modified.value, divergence |-> divergence.value])
            ELSE Invalid

RECURSIVE de_TreeNode(_)
de_TreeNode(field) ==
    IF ~field.ok THEN Invalid
    ELSE LET value == de_DiffInfo(Field(field.value, "value"))
             array == Field(field.value, "children")
         IN IF ~value.ok \/ ~array.ok THEN Invalid
            ELSE IF array.value.type # "array" THEN Invalid
            ELSE LET children == [k \in DOMAIN array.value.items |->
                                     de_TreeNode(Got(array.value.items[k]))]
                 IN IF \A k \in DOMAIN children : children[k].ok
                    THEN Got(TreeNode(value.value,
                                      [k \in DOMAIN children |-> children[k].value]))
                    ELSE Invalid

\* serde_json::from_str: one value and nothing after it
from_str(toks) ==
    LET document == parse_value(toks)
    IN IF document.ok /\ document.rest = << >> THEN de_TreeNode(Got(document.value))
       ELSE Invalid

(***************************************************************************)
(* Git instructions.                                                       *)
(***************************************************************************)
CreateCommit(version) == [op |-> "CreateCommit", version |-> version, branch |-> ""]
CreateBranch(version, branch) == [op |-> "CreateBranch", version |-> version, branch |-> branch]

\* as max_by_key_depth, but the first of the shallowest children
min_by_key_depth(tuples) ==
    CHOOSE i \in DOMAIN tuples :
        \A j \in DOMAIN tuples :
            /\ tuples[j].depth >= tuples[i].depth
            /\ j < i => tuples[j].depth > tuples[i].depth

\* .enumerate().max_by_key(|(_, (depth, ..))| depth): of several deepest
\* children the last one
max_by_key_depth(tuples) ==
    CHOOSE i \in DOMAIN tuples :
        \A j \in DOMAIN tuples :
            /\ tuples[j].depth <= tuples[i].depth
            /\ j > i => tuples[j].depth < tuples[i].depth

\* Vec::swap_remove: the last element takes the place of the removed one
swap_remove(v, idx) == [k \in 1 .. (Len(v) - 1) |-> IF k = idx THEN v[Len(v)] ELSE v[k]]

\* inner: (depth, commit, branch, children) of a version node
RECURSIVE inner(_)
inner(node) ==
    LET children_tuples == [k \in DOMAIN node.children |-> inner(node.children[k])]
    IN IF children_tuples = << >>
       THEN [depth |-> 0, commit |-> node.value.name, branch |-> node.value.name,
             children |-> << >>]
       ELSE LET next_commit_idx == max_by_key_depth(children_tuples)
                next == children_tuples[next_commit_idx]
                others == swap_remove(children_tuples, next_commit_idx)
            IN [depth |-> next.depth + 1,
                commit |-> node.value.name,
                branch |-> next.branch,
                children |->
                    <<TreeNode(CreateCommit(next.commit), next.children)>> \o
                    [k \in DOMAIN others |->
                        TreeNode(CreateBranch(others[k].commit, others[k].branch),
                                 others[k].children)]]

\* every child of the root becomes a CreateBranch
build_instruction_trees(root) ==
    [k \in DOMAIN root.children |->
        TreeNode(CreateBranch(inner(root.children[k]).commit, inner(root.children[k]).branch),
                 inner(root.children[k]).children)]

\* A repository: the commits in the order they were made (a commit is named
\* by its place), the branches with the commit each points at, and the
\* branch HEAD names.
MAIN_BRANCH == "master"
GitCommit(message, parents) == [message |-> message, parents |-> parents]
Repository(commits, branches, head) == [commits |-> commits, branches |-> branches, head |-> head]

\* Repository::init and commit_all(&repo, "Initial commit", true)
Repository_init ==
    Repository(<<GitCommit("Initial commit", << >>)>>,
               [b \in {MAIN_BRANCH} |-> 1], MAIN_BRANCH)

curr_commit(r) == r.branches[r.head]

goto_branch(r, branch_name) == [r EXCEPT !.head = branch_name]

\* repo.branch(name, &curr_commit, false) fails on a name that is taken
create_branch_fails(r, branch_name) == branch_name \in DOMAIN r.branches

create_branch(r, branch_name) ==
    Repository(r.commits,
               [b \in DOMAIN r.branches \cup {branch_name} |->
                   IF b = branch_name THEN curr_commit(r) ELSE r.branches[b]],
               branch_name)

\* commit_all(&repo, message, false): the new commit has the current commit
\* for its parent and HEAD's branch moves to it
commit_all(r, message) ==
    Repository(Append(r.commits, GitCommit(message, <<curr_commit(r)>>)),
               [r.branches EXCEPT ![r.head] = Len(r.commits) + 1],
               r.head)

\* the calls of execute_tree still to be made, the next one first
Frame(node, orig_branch) == [node |-> node, orig_branch |-> orig_branch]

(***************************************************************************)
(* Bounds and input families.                                              *)
(***************************************************************************)
MaxVersions == 2
MaxLines == 1
MaxWeight == 2
MaxOver == 1
MaxChildren == 2

\* The solver's unit tests use 4 x 4 matrices; the solver is run on every
\* matrix of that size over {0, 1} and on every smaller matrix over 0..MaxWeight.
TestVertices == 4

Paths == {"file_a.txt", "file_b.txt"}
Lines == {"l1", "l2"}

Idx(k) == 0 .. (k - 1)

RECURSIVE SeqsUpTo(_, _)
SeqsUpTo(S, k) ==
    IF k = 0 THEN {<< >>}
    ELSE LET shorter == SeqsUpTo(S, k - 1)
         IN shorter \cup {Append(sq, x) : sq \in {t \in shorter : Len(t) = k - 1}, x \in S}

Texts == SeqsUpTo(Lines, MaxLines)
FileDatas == {[text_content |-> None]} \cup {[text_content |-> Some(t)] : t \in Texts}
FileMaps == UNION {[D -> FileDatas] : D \in SUBSET Paths}

Version(name, files) == [name |-> name, files |-> files]

Txt(t) == [text_content |-> Some(t)]
NonText == [text_content |-> None]
OneFile(p, d) == [q \in {p} |-> d]
TwoFiles(da, db) == [q \in Paths |-> IF q = "file_a.txt" THEN da ELSE db]

\* The snapshots the driver is run on: without files, with one file (text,
\* empty text, non-text), with a file of another path, and with both files.
Corpus ==
    { << >>,
      OneFile("file_a.txt", Txt(<<"l1">>)),
      OneFile("file_a.txt", Txt(<< >>)),
      OneFile("file_a.txt", NonText),
      OneFile("file_b.txt", Txt(<<"l2">>)),
      TwoFiles(Txt(<<"l1", "l2">>), Txt(<<"l1">>)),
      TwoFiles(Txt(<<"l1">>), Txt(<<"l1">>)),
      TwoFiles(Txt(<< >>), Txt(<<"l2">>)) }

\* The snapshots given irregular names.
NamingCorpus == {<< >>, OneFile("file_a.txt", Txt(<<"l1">>))}

NamePool == <<"version_1", "version_2", "version_3", "version_4", "version_5", "version_6">>

\* distinct names; the last snapshot named as the first; the last named Empty
NameOf(scheme, k, pos) ==
    IF pos = k /\ scheme = "duplicate" THEN NamePool[1]
    ELSE IF pos = k /\ scheme = "empty" THEN "Empty"
    ELSE NamePool[pos]

VectorsOver(corpus, schemes) ==
    UNION {{[pos \in 1 .. k |-> Version(NameOf(scheme, k, pos), fs[pos])] :
                fs \in [1 .. k -> corpus], scheme \in schemes} :
           k \in 0 .. MaxVersions}

InputVectors ==
    VectorsOver(Corpus, {"distinct"}) \cup VectorsOver(NamingCorpus, {"duplicate", "empty"})

Matrices(k, r, w, unread) ==
    {[e \in Idx(k) \X Idx(k) |-> IF e[1] = e[2] \/ e[2] = r THEN u ELSE m[e]] :
        m \in [{e \in Idx(k) \X Idx(k) : e[1] # e[2] /\ e[2] # r} -> 0 .. w],
        u \in unread}

\* del Deletes then ins Inserts, as for two texts without a common line
SyntheticChanges(ins, del) ==
    [k \in 1 .. (del + ins) |->
        IF k <= del THEN TextChange(Delete, Some(k - 1), None, "l1")
        ELSE TextChange(Insert, None, Some(k - del - 1), "l2")]

LineCounts == {0, LINE_CAP - 1, LINE_CAP, LINE_CAP + MaxOver}

SyntheticGroups(filename) ==
    {<< >>} \cup {<<FileChange(filename, SyntheticChanges(ins, del))>> :
                    ins \in LineCounts, del \in LineCounts}

SyntheticDiffs ==
    {[added_files |-> a, deleted_files |-> d, modified_files |-> m] :
        a \in SyntheticGroups("added"), d \in SyntheticGroups("deleted"),
        m \in SyntheticGroups("modified")}

(***************************************************************************)
(* State.                                                                  *)
(***************************************************************************)
VARIABLES
    pc,             \* position in infer_version_tree (or in the function under test)
    multithreading, \* the flag of infer_version_tree
    versions,       \* the snapshot vector
    walk,           \* per snapshot, the order in which its files HashMap iterates
    n,              \* versions.len() after Empty was inserted; the matrix size
    to_compare,     \* the pairs (i, j), in the order they were pushed
    computed,       \* per pair: None, or Some(map_op's result)
    results,        \* the collected results not yet installed
    divergences,    \* Array2<f32>, as a function of <<i, j>>
    div_calc_res,   \* Array2<DivCalcResult>
    root_vertex,    \* the root handed to find_msa
    msa,            \* the parent vector
    forest,         \* assemble_forest's result
    tree,           \* the returned TreeNode<DiffInfo>
    text_diff,      \* a TextualVersionDiff (differ and scorer on their own)
    div_res,        \* <<forward, backward>> of calculate_divergences
    runs,           \* the earlier finished runs: their matrix, parent vector and tree
    operands,       \* the TreeNodes handed to ==
    verdict,        \* the outcome of == for every pair of operands
    version_tree_json,  \* the text of version_tree.json, None while there is no file
    version_tree,   \* what load_version_tree returned
    instruction_trees,  \* build_instruction_trees' result
    repo,           \* the git repository
    stack           \* the pending calls of execute_tree

\* the state outside one run of infer_version_tree
\* the state of vhi git-gen
git_vars == <<instruction_trees, repo, stack>>

elsewhere == <<runs, operands, verdict, version_tree_json, version_tree, git_vars>>

\* the state of one run, its position aside
run_vars == <<multithreading, versions, walk, n, to_compare, computed, results, divergences,
              div_calc_res, root_vertex, msa, forest, tree, text_diff, div_res>>

vars == <<pc, multithreading, versions, walk, n, to_compare, computed, results, divergences,
          div_calc_res, root_vertex, elsewhere, msa, forest, tree, text_diff, div_res>>

NoDiff == [added_files |-> << >>, deleted_files |-> << >>, modified_files |-> << >>]

NoGit ==
    /\ instruction_trees = << >>
    /\ repo = << >>
    /\ stack = << >>

Unused ==
    /\ runs = << >>
    /\ operands = << >>
    /\ verdict = << >>
    /\ version_tree_json = None
    /\ version_tree = << >>
    /\ NoGit
    /\ to_compare = << >>
    /\ computed = << >>
    /\ results = << >>
    /\ div_calc_res = << >>
    /\ forest = << >>
    /\ tree = << >>

(***************************************************************************)
(* infer_version_tree                                                      *)
(***************************************************************************)
Init ==
    /\ pc = "start"
    /\ multithreading \in BOOLEAN
    /\ versions \in InputVectors
    /\ walk \in WalksOf(versions)
    /\ n = 0
    /\ divergences = << >>
    /\ root_vertex = 0
    /\ msa = << >>
    /\ text_diff = NoDiff
    /\ div_res = << >>
    /\ Unused

\* as PairsLoop, with for i in 0..=j
RECURSIVE PairsLoopInclusive(_, _, _, _)
PairsLoopInclusive(len, j, i, acc) ==
    IF j >= len THEN acc
    ELSE IF i > j THEN PairsLoopInclusive(len, j + 1, 0, acc)
    ELSE PairsLoopInclusive(len, j, i + 1, Append(acc, <<i, j>>))

\* for j in 1..n { for i in 0..j { to_compare.push((i, j)) } }
RECURSIVE PairsLoop(_, _, _, _)
PairsLoop(len, j, i, acc) ==
    IF j >= len THEN acc
    ELSE IF i >= j THEN PairsLoop(len, j + 1, 0, acc)
    ELSE PairsLoop(len, j, i + 1, Append(acc, <<i, j>>))

null_version == Version("Empty", << >>)

\* versions.insert(0, null_version); n; to_compare
Start ==
    /\ pc = "start"
    /\ versions' = <<null_version>> \o versions
    /\ walk' = <<<< >>>> \o walk
    /\ n' = Len(versions')
    /\ to_compare' = PairsLoop(n', 1, 0, << >>)
    /\ computed' = [k \in 1 .. Len(to_compare') |-> None]
    /\ pc' = "compare"
    /\ UNCHANGED <<multithreading, results, divergences, div_calc_res, root_vertex, elsewhere, msa,
                   forest, tree, text_diff, div_res>>

\* as MapOp, but the second snapshot is looked up by the number of pairs
\* finished so far
MapOpAsFinished(k) ==
    /\ pc = "compare"
    /\ computed[k] = None
    /\ multithreading \/ \A h \in 1 .. (k - 1) : computed[h] # None
    /\ LET next == 1 + Cardinality({h \in DOMAIN computed : computed[h] # None})
           i == to_compare[k][1]
           j == to_compare[k][2]
           version_a == versions[i + 1]
           version_b == versions[to_compare[next][2] + 1]
           text_diff_ab == text_diff_versions(version_a, version_b, walk[i + 1],
                                              walk[to_compare[next][2] + 1])
       IN computed' = [computed EXCEPT ![k] = Some(<<i, j, calculate_divergences(text_diff_ab)>>)]
    /\ UNCHANGED <<pc, multithreading, versions, walk, n, to_compare, results, divergences,
                   div_calc_res, root_vertex, elsewhere, msa, forest, tree, text_diff, div_res>>

\* as Installed, but after the first turn of the loop
InstalledEarly ==
    /\ pc = "install"
    /\ Len(results) < Len(computed) \/ results = << >>
    /\ pc' = "msa"
    /\ UNCHANGED <<multithreading, versions, walk, n, to_compare, computed, results, divergences,
                   div_calc_res, root_vertex, elsewhere, msa, forest, tree, text_diff, div_res>>

\* map_op on the k-th pair: by any worker in any order under par_iter, in
\* order under iter
MapOp(k) ==
    /\ pc = "compare"
    /\ computed[k] = None
    /\ multithreading \/ \A h \in 1 .. (k - 1) : computed[h] # None
    /\ LET i == to_compare[k][1]
           j == to_compare[k][2]
           version_a == versions[i + 1]
           version_b == versions[j + 1]
           text_diff_ab == text_diff_versions(version_a, version_b, walk[i + 1], walk[j + 1])
       IN computed' = [computed EXCEPT ![k] = Some(<<i, j, calculate_divergences(text_diff_ab)>>)]
    /\ UNCHANGED <<pc, multithreading, versions, walk, n, to_compare, results, divergences,
                   div_calc_res, root_vertex, elsewhere, msa, forest, tree, text_diff, div_res>>

\* collect() keeps the order of to_compare; then the two matrices are allocated
Collect ==
    /\ pc = "compare"
    /\ \A k \in 1 .. Len(computed) : computed[k] # None
    /\ results' = [k \in 1 .. Len(computed) |-> computed[k][1]]
    /\ divergences' = [e \in Idx(n) \X Idx(n) |-> 0]
    /\ div_calc_res' = [e \in Idx(n) \X Idx(n) |-> DivCalcResult_new]
    /\ pc' = "install"
    /\ UNCHANGED <<multithreading, versions, walk, n, to_compare, computed, root_vertex, elsewhere, msa,
                   forest, tree, text_diff, div_res>>

\* as Install, but the forward result is written at (i, i)
InstallOnDiagonal ==
    /\ pc = "install"
    /\ results # << >>
    /\ LET i == Head(results)[1]
           j == Head(results)[2]
           forward == Head(results)[3][1]
           backward == Head(results)[3][2]
       IN /\ divergences' = [divergences EXCEPT ![<<i, i>>] = forward.divergence,
                                                ![<<j, i>>] = backward.divergence]
          /\ div_calc_res' = [div_calc_res EXCEPT ![<<i, i>>] = forward,
                                                  ![<<j, i>>] = backward]
    /\ results' = Tail(results)
    /\ UNCHANGED <<pc, multithreading, versions, walk, n, to_compare, computed, root_vertex, elsewhere, msa,
                   forest, tree, text_diff, div_res>>

\* one turn of `for result in results`
Install ==
    /\ pc = "install"
    /\ results # << >>
    /\ LET i == Head(results)[1]
           j == Head(results)[2]
           forward == Head(results)[3][1]
           backward == Head(results)[3][2]
       IN /\ divergences' = [divergences EXCEPT ![<<i, j>>] = forward.divergence,
                                                ![<<j, i>>] = backward.divergence]
          /\ div_calc_res' = [div_calc_res EXCEPT ![<<i, j>>] = forward,
                                                  ![<<j, i>>] = backward]
    /\ results' = Tail(results)
    /\ UNCHANGED <<pc, multithreading, versions, walk, n, to_compare, computed, root_vertex, elsewhere, msa,
                   forest, tree, text_diff, div_res>>

\* the loop is over: cmp_pb.finish(), Arc::try_unwrap
Installed ==
    /\ pc = "install"
    /\ results = << >>
    /\ pc' = "msa"
    /\ UNCHANGED <<multithreading, versions, walk, n, to_compare, computed, results, divergences,
                   div_calc_res, root_vertex, elsewhere, msa, forest, tree, text_diff, div_res>>

\* find_msa(divergences.view(), 0); the solver keeps no state between calls,
\* so a matrix it has seen before gets the parent vector it got before
FindMsa ==
    /\ pc = "msa"
    /\ msa' \in find_msa(divergences, n, root_vertex)
    /\ \A k \in DOMAIN runs : runs[k].divergences = divergences => msa' = runs[k].msa
    /\ pc' = "assemble"
    /\ UNCHANGED <<multithreading, versions, walk, n, to_compare, computed, results, divergences,
                   div_calc_res, root_vertex, elsewhere, forest, tree, text_diff, div_res>>

\* as Assemble, but only an empty forest is refused
AssembleAnyForest ==
    /\ pc = "assemble"
    /\ forest' = assemble_forest(msa, n, None)
    /\ pc' = IF Len(forest') >= 1 THEN "map" ELSE "panic"
    /\ UNCHANGED <<multithreading, versions, walk, n, to_compare, computed, results, divergences,
                   div_calc_res, root_vertex, elsewhere, msa, tree, text_diff, div_res>>

\* assemble_forest and assert_eq!(forest.len(), 1, "MSA is not tree")
Assemble ==
    /\ pc = "assemble"
    /\ forest' = assemble_forest(msa, n, None)
    /\ pc' = IF Len(forest') = 1 THEN "map" ELSE "panic"
    /\ UNCHANGED <<multithreading, versions, walk, n, to_compare, computed, results, divergences,
                   div_calc_res, root_vertex, elsewhere, msa, tree, text_diff, div_res>>

\* forest.remove(0) and tree.map_with_parent(.., None)
MapTree ==
    /\ pc = "map"
    /\ tree' = map_with_parent(forest[1], DiffInfoClosure(versions, div_calc_res, n), None)
    /\ pc' = "done"
    /\ UNCHANGED <<multithreading, versions, walk, n, to_compare, computed, results, divergences,
                   div_calc_res, root_vertex, elsewhere, msa, forest, text_diff, div_res>>

Next ==
    \/ Start
    \/ \E k \in 1 .. Len(to_compare) : MapOp(k)
    \/ Collect
    \/ Install
    \/ Installed
    \/ FindMsa
    \/ Assemble
    \/ MapTree

Spec == Init /\ [][Next]_vars

(***************************************************************************)
(* infer_version_tree called a second time on the same snapshots.  The     *)
(* function consumes its vector, so the second call gets the snapshots in  *)
(* maps of their own (loaded again, or cloned), walked in orders of their  *)
(* own, and a flag of its own.                                             *)
(***************************************************************************)
Rerun ==
    /\ pc = "done"
    /\ runs = << >>
    /\ runs' = <<[multithreading |-> multithreading, walk |-> Tail(walk),
                  divergences |-> divergences, msa |-> msa, tree |-> tree]>>
    /\ pc' = "start"
    /\ multithreading' \in BOOLEAN
    /\ versions' = Tail(versions)
    /\ walk' \in WalksOf(versions')
    /\ n' = 0
    /\ to_compare' = << >>
    /\ computed' = << >>
    /\ results' = << >>
    /\ divergences' = << >>
    /\ div_calc_res' = << >>
    /\ msa' = << >>
    /\ forest' = << >>
    /\ tree' = << >>
    /\ UNCHANGED <<root_vertex, operands, verdict, version_tree_json, version_tree, git_vars, text_diff,
                   div_res>>

RunsNext == Next \/ Rerun

SpecRuns == Init /\ [][RunsNext]_vars

(***************************************************************************)
(* infer_version_tree on the snapshots of the two handcrafted tests, the   *)
(* directories read in the order of their names or in the opposite order.  *)
(***************************************************************************)
Reversed(sq) == [k \in DOMAIN sq |-> sq[Len(sq) + 1 - k]]

\* test handcrafted_1: two files; version_2a and version_2b append a line to
\* both files of version_1, version_3 appends a line to both of version_2a
Handcrafted1 ==
    <<Version("version_1", TwoFiles(Txt(<<"file_a">>), Txt(<<"file_b">>))),
      Version("version_2a", TwoFiles(Txt(<<"file_a", "abc">>), Txt(<<"file_b", "def">>))),
      Version("version_2b", TwoFiles(Txt(<<"file_a", "123">>), Txt(<<"file_b", "456">>))),
      Version("version_3", TwoFiles(Txt(<<"file_a", "abc", "uvw">>),
                                    Txt(<<"file_b", "def", "xyz">>)))>>

\* test handcrafted_2: four versions of one file
Handcrafted2 ==
    <<Version("version_1", OneFile("file_a.txt", Txt(<<"This", "is the", "first", "version">>))),
      Version("version_2", OneFile("file_a.txt",
                                   Txt(<<"This", "is", "the", "second", "version!">>))),
      Version("version_3", OneFile("file_a.txt",
                                   Txt(<<"Now", "this", "is", "the", "third", "version!">>))),
      Version("version_4", OneFile("file_a.txt",
                  Txt(<<"Now", "this", "is", "the", "version", "after", "the", "third">>)))>>

HandcraftedInit ==
    /\ pc = "start"
    /\ multithreading \in BOOLEAN
    /\ versions \in {Handcrafted1, Reversed(Handcrafted1), Handcrafted2, Reversed(Handcrafted2)}
    /\ walk \in WalksOf(versions)
    /\ n = 0
    /\ divergences = << >>
    /\ root_vertex = 0
    /\ msa = << >>
    /\ text_diff = NoDiff
    /\ div_res = << >>
    /\ Unused

SpecHandcrafted == HandcraftedInit /\ [][Next]_vars

(***************************************************************************)
(* vhi infer writes the inferred tree to version_tree.json; vhi view and   *)
(* vhi git-gen read it back.                                               *)
(***************************************************************************)
\* save_version_tree: File::create and serde_json::to_writer
save_version_tree ==
    /\ pc = "done"
    /\ version_tree_json' = Some(ser_TreeNode(tree))
    /\ pc' = "saved"
    /\ UNCHANGED <<run_vars, runs, operands, verdict, version_tree, git_vars>>

\* load_version_tree: read_to_string and serde_json::from_str; a missing or
\* a malformed file ends the process
load_version_tree ==
    /\ pc = "saved"
    /\ IF version_tree_json # None /\ from_str(version_tree_json[1]).ok
       THEN /\ version_tree' = from_str(version_tree_json[1]).value
            /\ pc' = "loaded"
       ELSE /\ version_tree' = version_tree
            /\ pc' = "exit"
    /\ UNCHANGED <<run_vars, runs, operands, verdict, version_tree_json, git_vars>>

JsonNext == Next \/ save_version_tree \/ load_version_tree

SpecJson == Init /\ [][JsonNext]_vars

(***************************************************************************)
(* The end of infer_version_tree on its own: whatever parent vector the    *)
(* solver hands back, over snapshots without files.                        *)
(***************************************************************************)
ParentVectors(k) == [Idx(k) -> {None} \cup {Some(j) : j \in Idx(k)}]

ForestInit ==
    /\ pc = "assemble"
    /\ multithreading = FALSE
    /\ versions \in {<<null_version>> \o vs : vs \in VectorsOver({<< >>}, {"distinct"})}
    /\ walk = [k \in DOMAIN versions |-> << >>]
    /\ n = Len(versions)
    /\ divergences = [e \in Idx(n) \X Idx(n) |-> 0]
    /\ div_calc_res = [e \in Idx(n) \X Idx(n) |-> DivCalcResult_new]
    /\ root_vertex = 0
    /\ msa \in ParentVectors(n)
    /\ text_diff = NoDiff
    /\ div_res = << >>
    /\ runs = << >>
    /\ operands = << >>
    /\ verdict = << >>
    /\ version_tree_json = None
    /\ version_tree = << >>
    /\ NoGit
    /\ to_compare = << >>
    /\ computed = << >>
    /\ results = << >>
    /\ forest = << >>
    /\ tree = << >>

ForestNext == Assemble \/ MapTree

SpecForest == ForestInit /\ [][ForestNext]_vars

(***************************************************************************)
(* find_msa on its own, on arbitrary matrices and roots.                   *)
(***************************************************************************)
MsaInit ==
    /\ pc = "msa"
    /\ multithreading = FALSE
    /\ versions = << >>
    /\ walk = << >>
    /\ msa = << >>
    /\ text_diff = NoDiff
    /\ div_res = << >>
    /\ Unused
    /\ \/ /\ n \in 1 .. (TestVertices - 1)
          /\ root_vertex \in Idx(n)
          /\ divergences \in Matrices(n, root_vertex, MaxWeight, 0 .. MaxWeight)
       \/ /\ n = TestVertices
          /\ root_vertex \in Idx(n)
          /\ divergences \in Matrices(n, root_vertex, 1, {0})
       \/ /\ n = TestVertices
          /\ root_vertex = 0
          /\ divergences \in {Arr2(SimpleMst), Arr2(SimpleMsa)}

MsaNext == FindMsa

SpecMsa == MsaInit /\ [][MsaNext]_vars

(***************************************************************************)
(* text_diff_versions and calculate_divergences on their own.              *)
(***************************************************************************)
DiffInit ==
    /\ multithreading = FALSE
    /\ n = 0
    /\ divergences = << >>
    /\ root_vertex = 0
    /\ msa = << >>
    /\ div_res = << >>
    /\ Unused
    /\ \/ /\ pc = "diff"
          /\ versions \in {<<Version("old", fo), Version("new", fn)>> :
                              fo \in FileMaps, fn \in FileMaps}
          /\ walk \in WalksOf(versions)
          /\ text_diff = NoDiff
       \/ /\ pc = "score"
          /\ versions = << >>
          /\ walk = << >>
          /\ text_diff \in SyntheticDiffs

Diff ==
    /\ pc = "diff"
    /\ text_diff' = text_diff_versions(versions[1], versions[2], walk[1], walk[2])
    /\ pc' = "score"
    /\ UNCHANGED <<multithreading, versions, walk, n, to_compare, computed, results, divergences,
                   div_calc_res, root_vertex, elsewhere, msa, forest, tree, div_res>>

Score ==
    /\ pc = "score"
    /\ div_res' = calculate_divergences(text_diff)
    /\ pc' = "scored"
    /\ UNCHANGED <<multithreading, versions, walk, n, to_compare, computed, results, divergences,
                   div_calc_res, root_vertex, elsewhere, msa, forest, tree, text_diff>>

DiffNext == Diff \/ Score

SpecDiff == DiffInit /\ [][DiffNext]_vars

(***************************************************************************)
(* TreeNode equality on its own, on name trees as the engine's tests build *)
(* them (TreeNode<String>).                                                *)
(***************************************************************************)
Labels == {"version_1", "version_2"}
Leaves == {TreeNode(l, << >>) : l \in Labels}
Twigs == {TreeNode(l, cs) : l \in Labels, cs \in SeqsUpTo(Leaves, MaxChildren)}
SmallTrees == Twigs \cup {TreeNode("Empty", <<t>>) : t \in Twigs}

NoRun ==
    /\ multithreading = FALSE
    /\ versions = << >>
    /\ walk = << >>
    /\ n = 0
    /\ to_compare = << >>
    /\ computed = << >>
    /\ results = << >>
    /\ divergences = << >>
    /\ div_calc_res = << >>
    /\ root_vertex = 0
    /\ msa = << >>
    /\ forest = << >>
    /\ tree = << >>
    /\ text_diff = NoDiff
    /\ div_res = << >>

TreeInit ==
    /\ pc = "operands"
    /\ NoRun
    /\ runs = << >>
    /\ operands \in SmallTrees \X SmallTrees \X SmallTrees
    /\ verdict = << >>
    /\ version_tree_json = None
    /\ version_tree = << >>
    /\ NoGit

\* a == b for every two of the operands
Equate ==
    /\ pc = "operands"
    /\ verdict' = [e \in (DOMAIN operands) \X (DOMAIN operands) |->
                      TreeEq(operands[e[1]], operands[e[2]])]
    /\ pc' = "compared"
    /\ UNCHANGED <<run_vars, runs, operands, version_tree_json, version_tree, git_vars>>

TreeNext == Equate

SpecTree == TreeInit /\ [][TreeNext]_vars

(***************************************************************************)
(* Properties of find_msa (SpecMsa).                                       *)
(***************************************************************************)
Options(k) == {None} \cup {Some(j) : j \in Idx(k)}

\* following the parent pointers from i reaches root r without a revisit
RECURSIVE ClimbsToRoot(_, _, _, _)
ClimbsToRoot(P, r, i, seen) ==
    IF i = r THEN TRUE
    ELSE IF i \in seen \/ P[i] = None THEN FALSE
    ELSE ClimbsToRoot(P, r, P[i][1], seen \cup {i})

IsArborescence(P, k, r) ==
    /\ DOMAIN P = Idx(k)
    /\ P[r] = None
    /\ \A i \in Idx(k) \ {r} :
          /\ P[i] \in Options(k) \ {None, Some(i)}
          /\ ClimbsToRoot(P, r, i, {})

Arborescences(k, r) == {Q \in [Idx(k) -> Options(k)] : IsArborescence(Q, k, r)}

\* the sum over i # r of W[P[i]][i]
TreeWeight(W, P, k, r) ==
    SumOver(Idx(k) \ {r}, [i \in Idx(k) \ {r} |-> W[<<P[i][1], i>>]])

MsaReturned == pc = "assemble"

\* C1: the parent vector find_msa returns has length N, no parent at the root
\* r, and for every other i a parent in 0..N-1 other than i from which the
\* parent pointers lead to r without revisiting a vertex.
C1_Arborescence == MsaReturned => IsArborescence(msa, n, root_vertex)

\* C1 witness: a 4-vertex result rooted at 2 that is a chain 2 -> 3 -> 1 -> 0.
C1_Witness ==
    /\ MsaReturned
    /\ n = TestVertices
    /\ root_vertex = 2
    /\ msa = [i \in Idx(n) |-> IF i = 2 THEN None ELSE IF i = 3 THEN Some(2)
                                ELSE IF i = 1 THEN Some(3) ELSE Some(1)]

\* C2 as stated: the sum of the input weights along the returned parent
\* vector is maximal among the arborescences rooted at r.
C2_InputWeightMaximal ==
    MsaReturned =>
        \A Q \in Arborescences(n, root_vertex) :
            TreeWeight(divergences, Q, n, root_vertex)
                <= TreeWeight(divergences, msa, n, root_vertex)

\* C2 amended: the returned parent vector is maximal in the NEGATED weights
\* the solver is run on, no arborescence rooted at r has a larger sum of
\* -W[P[i]][i]; in the input weights it is therefore minimal, not maximal.
C2_NegatedWeightMaximal ==
    MsaReturned =>
        \A Q \in Arborescences(n, root_vertex) :
            TreeWeight([e \in DOMAIN divergences |-> 0 - divergences[e]], Q, n, root_vertex)
                <= TreeWeight([e \in DOMAIN divergences |-> 0 - divergences[e]], msa, n,
                              root_vertex)

\* C2 witness: a result that some arborescence outweighs in the input weights.
C2_Witness ==
    /\ MsaReturned
    /\ \E Q \in Arborescences(n, root_vertex) :
          TreeWeight(divergences, Q, n, root_vertex)
              > TreeWeight(divergences, msa, n, root_vertex)

VectorOf(sq) == [i \in Idx(Len(sq)) |-> sq[i + 1]]

\* C3: find_msa returns a minimum spanning arborescence of the weights it is
\* given, and with root 0 it returns [_, 0, 1, 1] and [_, 2, 3, 0] for the two
\* matrices of the unit tests.
C3_MinimumArborescence ==
    MsaReturned =>
        /\ \A Q \in Arborescences(n, root_vertex) :
              TreeWeight(divergences, msa, n, root_vertex)
                  <= TreeWeight(divergences, Q, n, root_vertex)
        /\ (divergences = Arr2(SimpleMst) /\ root_vertex = 0)
              => msa = VectorOf(<<None, Some(0), Some(1), Some(1)>>)
        /\ (divergences = Arr2(SimpleMsa) /\ root_vertex = 0)
              => msa = VectorOf(<<None, Some(2), Some(3), Some(0)>>)

\* C3 witness: the second unit test's matrix with its expected result.
C3_Witness ==
    /\ MsaReturned
    /\ divergences = Arr2(SimpleMsa)
    /\ root_vertex = 0
    /\ msa = VectorOf(<<None, Some(2), Some(3), Some(0)>>)

(***************************************************************************)
(* Properties of the differ and the scorer (SpecDiff) and of the           *)
(* comparison driver and the assembled tree (Spec).                        *)
(***************************************************************************)
AfterCollect == pc \in {"install", "msa", "assemble", "map", "done", "panic"}
AfterInstall == pc \in {"msa", "assemble", "map", "done", "panic"}

Mirrored(forward, backward) ==
    /\ forward.added = backward.deleted
    /\ forward.deleted = backward.added
    /\ forward.modified = backward.modified

\* C4: the forward and backward results of calculate_divergences mirror each
\* other (added and deleted swapped, modified equal), for every computed pair
\* and hence for the cells (i, j) and (j, i) of the result matrix, i < j.
C4_ForwardBackwardMirrored ==
    /\ \A k \in DOMAIN computed :
          computed[k] # None => Mirrored(computed[k][1][3][1], computed[k][1][3][2])
    /\ AfterInstall =>
          \A i \in Idx(n), j \in Idx(n) :
              i < j => Mirrored(div_calc_res[<<i, j>>], div_calc_res[<<j, i>>])

\* C4 witness: all results are installed and the pair (1, 2) has files that
\* were added but none deleted, and a modified file.
C4_Witness ==
    /\ AfterInstall
    /\ n = 3
    /\ div_calc_res[<<1, 2>>].added = 1
    /\ div_calc_res[<<1, 2>>].deleted = 0
    /\ div_calc_res[<<1, 2>>].modified = 1

Differed == versions # << >> /\ pc \in {"score", "scored"}

CountIn(group, p) == Cardinality({k \in 1 .. Len(group) : group[k].filename = p})

\* the text a file is compared as: non-text content counts as the empty string
Coerced(v, p) ==
    IF v.files[p].text_content = None THEN << >> ELSE v.files[p].text_content[1]

\* C5: every path of the old or the new snapshot is in exactly one class:
\* once in added iff only in new, once in deleted iff only in old, once in
\* modified iff in both with different (coerced) text, in no group iff in both
\* with equal text; the groups hold no other path.
C5_DiffIsTotal ==
    Differed =>
        LET vo == versions[1]
            vn == versions[2]
            PathsOfBoth == DOMAIN vo.files \cup DOMAIN vn.files
        IN /\ \A p \in PathsOfBoth :
                /\ CountIn(text_diff.added_files, p)
                       = IF p \notin DOMAIN vo.files THEN 1 ELSE 0
                /\ CountIn(text_diff.deleted_files, p)
                       = IF p \notin DOMAIN vn.files THEN 1 ELSE 0
                /\ CountIn(text_diff.modified_files, p)
                       = IF /\ p \in DOMAIN vo.files
                            /\ p \in DOMAIN vn.files
                            /\ Coerced(vo, p) # Coerced(vn, p) THEN 1 ELSE 0
           /\ \A g \in {text_diff.added_files, text_diff.deleted_files,
                        text_diff.modified_files} :
                \A k \in 1 .. Len(g) : g[k].filename \in PathsOfBoth

\* C5 witness: a non-text file against an empty text file (unchanged) next to
\* an added file.
C5_Witness ==
    /\ Differed
    /\ DOMAIN versions[1].files = {"file_a.txt"}
    /\ versions[1].files["file_a.txt"].text_content = None
    /\ DOMAIN versions[2].files = Paths
    /\ versions[2].files["file_a.txt"].text_content = Some(<< >>)
    /\ text_diff.modified_files = << >>
    /\ Len(text_diff.added_files) = 1

InsOf(fc) == Cardinality({k \in 1 .. Len(fc.changes) : fc.changes[k].tag = "Insert"})
DelOf(fc) == Cardinality({k \in 1 .. Len(fc.changes) : fc.changes[k].tag = "Delete"})

\* sum over the changed files of pi * min(ins, 50) + pd * min(del, 50)
LineSum(d, pi, pd) ==
    LET changed == d.added_files \o d.deleted_files \o d.modified_files
    IN SumOver(1 .. Len(changed),
               [k \in 1 .. Len(changed) |->
                   pi * (IF InsOf(changed[k]) < 50 THEN InsOf(changed[k]) ELSE 50)
                   + pd * (IF DelOf(changed[k]) < 50 THEN DelOf(changed[k]) ELSE 50)])

\* a stored divergence to the nearest hundredth, in hundredths
Hundredths(t) ==
    (t \div Pow2(23)) * 100 + RoundHalfEven((t % Pow2(23)) * 100, Pow2(23))

\* C6: in hundredths, and with the f32 result taken to the nearest hundredth,
\* forward.divergence = 200 A + 400 D + 100 M + sum of (2 min(ins, 50) +
\* 5 min(del, 50)) and backward.divergence = 400 A + 200 D + 100 M + sum of
\* (5 min(ins, 50) + 2 min(del, 50)).
C6_DivergenceFormula ==
    pc = "scored" =>
        LET A == Len(text_diff.added_files)
            D == Len(text_diff.deleted_files)
            M == Len(text_diff.modified_files)
        IN /\ Hundredths(div_res[1].divergence)
                 = 200 * A + 400 * D + 100 * M + LineSum(text_diff, 2, 5)
           /\ Hundredths(div_res[2].divergence)
                 = 400 * A + 200 * D + 100 * M + LineSum(text_diff, 5, 2)

\* C6 witness: one added file with more than 50 inserted lines, one deleted
\* file with 49 deleted lines and one modified file with 49 inserted lines.
C6_Witness ==
    /\ pc = "scored"
    /\ Len(text_diff.added_files) = 1
    /\ Len(text_diff.deleted_files) = 1
    /\ Len(text_diff.modified_files) = 1
    /\ InsOf(text_diff.added_files[1]) > 50 /\ DelOf(text_diff.added_files[1]) = 0
    /\ InsOf(text_diff.deleted_files[1]) = 0 /\ DelOf(text_diff.deleted_files[1]) = 49
    /\ InsOf(text_diff.modified_files[1]) = 49 /\ DelOf(text_diff.modified_files[1]) = 0
    /\ Hundredths(div_res[1].divergence) = 1143
    /\ Hundredths(div_res[2].divergence) = 1293

GroupNames == {"added_files", "deleted_files", "modified_files"}

\* C7: line counts are capped at 50 per file: replacing one file's inserted
\* (or deleted) line count, when at least 50, by another count of at least 50
\* changes neither divergence, and the lines of one file add at most 3.5
\* (7 * 2^22 of 2^-23) to either divergence.
C7_LineCap ==
    pc = "scored" =>
        \A g \in GroupNames : \A k \in 1 .. Len(text_diff[g]) :
            LET fc == text_diff[g][k]
                With(ins, del) ==
                    calculate_divergences(
                        [text_diff EXCEPT ![g][k].changes = SyntheticChanges(ins, del)])
                Alone(changes) ==
                    calculate_divergences(
                        [NoDiff EXCEPT ![g] = <<FileChange(fc.filename, changes)>>])
            IN /\ \A c \in {x \in LineCounts : x >= 50} :
                    /\ InsOf(fc) >= 50 =>
                          /\ With(c, DelOf(fc))[1].divergence = div_res[1].divergence
                          /\ With(c, DelOf(fc))[2].divergence = div_res[2].divergence
                    /\ DelOf(fc) >= 50 =>
                          /\ With(InsOf(fc), c)[1].divergence = div_res[1].divergence
                          /\ With(InsOf(fc), c)[2].divergence = div_res[2].divergence
               /\ Alone(fc.changes)[1].divergence - Alone(<< >>)[1].divergence
                     <= 7 * Pow2(22)
               /\ Alone(fc.changes)[2].divergence - Alone(<< >>)[2].divergence
                     <= 7 * Pow2(22)

\* C7 witness: a single modified file with more than 50 inserted and more
\* than 50 deleted lines, scored 1.0 + 3.5 in both directions.
C7_Witness ==
    /\ pc = "scored"
    /\ text_diff.added_files = << >>
    /\ text_diff.deleted_files = << >>
    /\ Len(text_diff.modified_files) = 1
    /\ InsOf(text_diff.modified_files[1]) > 50
    /\ DelOf(text_diff.modified_files[1]) > 50
    /\ div_res[1].divergence = 9 * Pow2(22)
    /\ div_res[2].divergence = 9 * Pow2(22)

\* C8: once the matrix exists its diagonal is zero at every moment (no
\* diagonal cell is written), and once all results are installed every
\* off-diagonal cell is >= 0.
C8_DiagonalZeroNonNegative ==
    /\ AfterCollect => \A i \in Idx(n) : divergences[<<i, i>>] = 0
    /\ AfterInstall =>
          \A i \in Idx(n), j \in Idx(n) : i # j => divergences[<<i, j>>] >= 0

\* C8 witness: a finished run on two snapshots with different costs in the
\* two directions between them.
C8_Witness ==
    /\ pc = "done"
    /\ n = 3
    /\ divergences[<<0, 1>>] > 0
    /\ divergences[<<1, 2>>] > divergences[<<2, 1>>]
    /\ divergences[<<2, 1>>] > 0

SameContent(vo, vn) ==
    /\ DOMAIN vo.files = DOMAIN vn.files
    /\ \A p \in DOMAIN vo.files : Coerced(vo, p) = Coerced(vn, p)

\* the walk order of a map once the paths in U are taken out of it
Kept(order, U) == SelectSeq(order, LAMBDA p : p \notin U)

\* v without the paths in U
Without(v, U) == Version(v.name, [p \in DOMAIN v.files \ U |-> v.files[p]])

\* C9: two snapshots with the same paths and equal (coerced) text everywhere
\* have an empty diff and divergence 0 in both directions; and files with equal
\* content on both sides contribute nothing: the results are those of the two
\* snapshots with these files removed.
C9_EqualContentCostsNothing ==
    (pc = "scored" /\ versions # << >>) =>
        LET vo == versions[1]
            vn == versions[2]
            U == {p \in DOMAIN vo.files \cap DOMAIN vn.files : Coerced(vo, p) = Coerced(vn, p)}
            so == Without(vo, U)
            sn == Without(vn, U)
        IN /\ SameContent(vo, vn) =>
                /\ text_diff = NoDiff
                /\ div_res[1].divergence = 0
                /\ div_res[2].divergence = 0
           /\ LET stripped == calculate_divergences(
                                   text_diff_versions(so, sn, Kept(walk[1], U), Kept(walk[2], U)))
              IN /\ stripped[1].divergence = div_res[1].divergence
                 /\ stripped[2].divergence = div_res[2].divergence

\* C9 witness: two snapshots with a non-text file against an empty text file
\* and a second file with the same line on both sides.
C9_Witness ==
    /\ pc = "scored"
    /\ versions # << >>
    /\ versions[1].files = TwoFiles(NonText, Txt(<<"l1">>))
    /\ versions[2].files = TwoFiles(Txt(<< >>), Txt(<<"l1">>))
    /\ div_res[1].divergence = 0

RECURSIVE TreeValues(_)
RECURSIVE ForestValues(_)
TreeValues(node) == <<node.value>> \o ForestValues(node.children)
ForestValues(f) == IF f = << >> THEN << >> ELSE TreeValues(Head(f)) \o ForestValues(Tail(f))

Occurrences(sq, x) == Cardinality({k \in 1 .. Len(sq) : sq[k] = x})

\* the input snapshots (versions[1] is Empty once inference has started) have
\* pairwise distinct names, none of them Empty
DistinctInputNames ==
    \A a \in 2 .. Len(versions) :
        /\ versions[a].name # "Empty"
        /\ \A b \in 2 .. Len(versions) : a # b => versions[a].name # versions[b].name

\* C10: for k input snapshots with pairwise distinct names other than Empty,
\* the returned tree has k + 1 nodes, Empty and every input name are each on
\* exactly one node, and every snapshot index is reached exactly once from
\* the root.
C10_TreeHasEveryNameOnce ==
    (pc = "done" /\ DistinctInputNames) =>
        LET names == [k \in 1 .. Len(TreeValues(tree)) |-> TreeValues(tree)[k].name]
            k_in == Len(versions) - 1
        IN /\ Len(names) = k_in + 1
           /\ \A a \in 1 .. Len(versions) : Occurrences(names, versions[a].name) = 1
           /\ \A i \in Idx(n) : Occurrences(TreeValues(forest[1]), i) = 1

\* C10 witness: two snapshots, the second one inferred as the parent of the
\* first: Empty -> version_2 -> version_1.
C10_Witness ==
    /\ pc = "done"
    /\ DistinctInputNames
    /\ Len(versions) = 3
    /\ Len(tree.children) = 1
    /\ tree.children[1].value.name = "version_2"
    /\ Len(tree.children[1].children) = 1
    /\ tree.children[1].children[1].value.name = "version_1"

(***************************************************************************)
(* Properties of the inferred tree (Spec).                                 *)
(***************************************************************************)
Returned == pc = "done"

\* C11: for every input, the root node of the tree infer_version_tree returns
\* is named Empty and has added = 0, deleted = 0, modified = 0 and
\* divergence = 0; it is what the closure reads from the diagonal cell (0,0),
\* which the install loop never wrote.
C11_RootIsEmptyAllZero ==
    Returned =>
        /\ tree.value = [name |-> "Empty", added |-> 0, deleted |-> 0, modified |-> 0,
                         divergence |-> 0]
        /\ tree.value = DiffInfo(versions[1].name, div_calc_res[<<0, 0>>])
        /\ div_calc_res[<<0, 0>>] = DivCalcResult_new

\* C11 witness: a returned tree over two snapshots with files, so that every
\* other cell of row 0 holds a non-zero result, under an all-zero root Empty.
C11_Witness ==
    /\ Returned
    /\ n = 3
    /\ \A j \in 1 .. 2 : div_calc_res[<<0, j>>].added > 0
    /\ \A j \in 1 .. 2 : div_calc_res[<<j, 0>>].deleted > 0
    /\ tree.value.name = "Empty"
    /\ tree.value.divergence = 0

\* the nodes of the index tree and of the returned tree, in the same preorder
IndexNodes == TreeValues(forest[1])
InfoNodes == TreeValues(tree)

\* the forward result of a direct diff of snapshot i into snapshot j, each
\* files map walked in the order it has
DirectDiff(i, j) ==
    calculate_divergences(
        text_diff_versions(versions[i + 1], versions[j + 1], walk[i + 1], walk[j + 1]))[1]

\* C12 as stated: every non-root node j of the returned tree, whose parent i
\* may be smaller or larger than j, carries the name of S_j and the added,
\* deleted, modified and divergence values of the forward result of
\* calculate_divergences on a direct diff text_diff_versions(S_i, S_j); for
\* i > j this is the backward result stored for the pair (j, i).
C12_NodeCarriesDirectDiff ==
    Returned =>
        \A k \in 1 .. Len(IndexNodes) :
            LET j == IndexNodes[k]
            IN msa[j] # None => InfoNodes[k] = DiffInfo(versions[j + 1].name,
                                                       DirectDiff(msa[j][1], j))

\* C12 witness: version_1 = {a: l1, b: l1} hangs under version_2 = {a: "",
\* b: l2} (i = 2 > j = 1); the two maps are walked in different orders, the
\* node carries the backward result of the pair (1, 2), 17532190 * 2^-23, and
\* the direct diff of version_2 into version_1 gives 17532192 * 2^-23.
C12_Witness ==
    /\ Returned
    /\ n = 3
    /\ msa[1] = Some(2)
    /\ walk[2] # walk[3]
    /\ tree.children[1].children[1].value =
          [name |-> "version_1", added |-> 0, deleted |-> 0, modified |-> 2,
           divergence |-> 17532190]
    /\ DirectDiff(2, 1) = [added |-> 0, deleted |-> 0, modified |-> 2, divergence |-> 17532192]


(***************************************************************************)
(* Properties of TreeNode equality (SpecTree).                             *)
(***************************************************************************)
Compared == pc = "compared"

\* the two child sequences are the same multiset when some one-to-one pairing
\* of their positions pairs equal children
SameMultiset(xs, ys) ==
    /\ Len(xs) = Len(ys)
    /\ \E pairing \in Orders(DOMAIN xs) :
          \A k \in DOMAIN xs : TreeEq(xs[k], ys[pairing[k]])

\* C13: a == b holds exactly when the two values are equal and the two child
\* sequences are equal as multisets, the children compared by the same ==.
C13_EqualityIsMultisetEquality ==
    Compared =>
        \A e \in DOMAIN verdict :
            verdict[e] <=>
                /\ operands[e[1]].value = operands[e[2]].value
                /\ SameMultiset(operands[e[1]].children, operands[e[2]].children)

\* C13 witness: version_1 -> [version_1, version_1] against version_1 ->
\* [version_1, version_2]: == says true, the child multisets differ.
C13_Witness ==
    /\ Compared
    /\ operands[1] = TreeNode("version_1", <<TreeNode("version_1", << >>), TreeNode("version_1", << >>)>>)
    /\ operands[2] = TreeNode("version_1", <<TreeNode("version_1", << >>), TreeNode("version_2", << >>)>>)
    /\ verdict[<<1, 2>>]
    /\ ~SameMultiset(operands[1].children, operands[2].children)

\* C14: == is an equivalence relation: reflexive, symmetric and transitive,
\* also on trees with repeated sibling subtrees.
C14_EqualityIsEquivalence ==
    Compared =>
        /\ \A i \in DOMAIN operands : verdict[<<i, i>>]
        /\ \A i, j \in DOMAIN operands : verdict[<<i, j>>] => verdict[<<j, i>>]
        /\ \A i, j, k \in DOMAIN operands :
              verdict[<<i, j>>] /\ verdict[<<j, k>>] => verdict[<<i, k>>]

\* C14 witness: a node with a repeated child equals a node with two different
\* children, and not the other way round.
C14_Witness ==
    /\ Compared
    /\ \E i, j \in DOMAIN operands :
          /\ operands[i].children # << >>
          /\ \A k \in DOMAIN operands[i].children :
                operands[i].children[k] = operands[i].children[1]
          /\ verdict[<<i, j>>]
          /\ ~verdict[<<j, i>>]


(***************************************************************************)
(* Two runs on the same snapshots (SpecRuns).                              *)
(***************************************************************************)
SecondReturned == pc = "done" /\ runs # << >>

\* version_tree.map(&|v| v.name.to_owned()), the tree the tests compare
RECURSIVE name_tree(_)
name_tree(node) ==
    TreeNode(node.value.name, [k \in DOMAIN node.children |-> name_tree(node.children[k])])

\* C15: the trees of two runs on the same snapshots, whatever the flag of
\* either run, are equal under TreeNode equality.
C15_TwoRunsSameTree ==
    SecondReturned => TreeEq(runs[1].tree, tree) /\ TreeEq(tree, runs[1].tree)

\* the weaker agreement: same names in the same shape
NameTreesAgree ==
    SecondReturned =>
        /\ TreeEq(name_tree(runs[1].tree), name_tree(tree))
        /\ TreeEq(name_tree(tree), name_tree(runs[1].tree))

\* C15 witness: the second run walks a files map in another order, returns
\* the same parent vector and the same names, and a tree that is not equal to
\* the first: some node differs in its divergence alone.
C15_Witness ==
    /\ SecondReturned
    /\ runs[1].walk # Tail(walk)
    /\ runs[1].msa = msa
    /\ name_tree(runs[1].tree) = name_tree(tree)
    /\ ~TreeEq(runs[1].tree, tree)
    /\ \E k \in DOMAIN InfoNodes :
          /\ TreeValues(runs[1].tree)[k].divergence # InfoNodes[k].divergence
          /\ [TreeValues(runs[1].tree)[k] EXCEPT !.divergence = 0] =
                [InfoNodes[k] EXCEPT !.divergence = 0]


(***************************************************************************)
(* Properties of version_tree.json (SpecJson).                             *)
(***************************************************************************)
Loaded == pc = "loaded"

\* the tree without its divergences: shape, child order, names and counts
RECURSIVE CountsTree(_)
CountsTree(node) ==
    TreeNode([name |-> node.value.name, added |-> node.value.added,
              deleted |-> node.value.deleted, modified |-> node.value.modified],
             [k \in DOMAIN node.children |-> CountsTree(node.children[k])])

\* C16: the tree read back from version_tree.json has the shape, the child
\* order and, on every node, the name and the three counts of the tree that
\* was saved, and the two trees are equal under TreeNode equality.
C16_SaveLoadRoundTrip ==
    /\ pc # "exit"
    /\ Loaded =>
          /\ CountsTree(version_tree) = CountsTree(tree)
          /\ TreeEq(tree, version_tree)
          /\ TreeEq(version_tree, tree)

\* C16 witness: a tree of three versions under Empty, one of them with two
\* children or a grandchild, with a divergence that is no whole number, went
\* through the file.
C16_Witness ==
    /\ Loaded
    /\ n = 3
    /\ version_tree = tree
    /\ \E k \in DOMAIN InfoNodes : InfoNodes[k].divergence % Pow2(MANTISSA_DIGITS - 1) # 0
    /\ \E k \in DOMAIN InfoNodes : InfoNodes[k].modified > 0
    /\ Len(version_tree_json[1]) > 3 * 21


(***************************************************************************)
(* Input names (Spec).                                                     *)
(***************************************************************************)
\* the snapshots handed in: versions without the Empty put in front
InputVersions == IF pc = "start" THEN versions ELSE Tail(versions)

UniqueNames ==
    /\ \A i, j \in DOMAIN InputVersions :
          i # j => InputVersions[i].name # InputVersions[j].name
    /\ \A i \in DOMAIN InputVersions : InputVersions[i].name # "Empty"

\* C17: no tree is produced for snapshots of which two share a name or one
\* is named Empty.
C17_IrregularNamesRejected == Returned => UniqueNames

\* C17 witness: a tree was returned for two snapshots of one name, with two
\* nodes of that name, or for a snapshot named Empty, with a second node Empty.
C17_Witness ==
    /\ Returned
    /\ ~UniqueNames
    /\ \E k, l \in DOMAIN InfoNodes : k # l /\ InfoNodes[k].name = InfoNodes[l].name


(***************************************************************************)
(* The parent vector and the assertion (SpecForest).                       *)
(***************************************************************************)
ParentLess == {i \in Idx(n) : msa[i] = None}

\* C18: once the forest is assembled, the run has panicked with "MSA is not
\* tree", and has no tree, exactly when the parent vector does not have
\* exactly one entry without a parent; a returned tree comes from a parent
\* vector with exactly one such entry.
C18_NotTreeAborts ==
    /\ pc # "assemble" => (pc = "panic" <=> Cardinality(ParentLess) # 1)
    /\ pc = "panic" => tree = << >>
    /\ Returned => Cardinality(ParentLess) = 1 /\ tree # << >>

\* C18 witness: three vertices, two of them without a parent, and the run
\* panicked.
C18_Witness ==
    /\ pc = "panic"
    /\ n = 3
    /\ Cardinality(ParentLess) = 2
    /\ Len(forest) = 2


(***************************************************************************)
(* Small inputs (Spec).                                                    *)
(***************************************************************************)
NoChanges(d) == d.added = 0 /\ d.deleted = 0 /\ d.modified = 0

\* C19: for a single snapshot s the tree is Empty with the one child s, s
\* without children, and s carries added = the number of its files, deleted
\* = 0 and modified = 0.
C19_SingleSnapshot ==
    Returned /\ n = 2 =>
        /\ tree.value.name = "Empty"
        /\ Len(tree.children) = 1
        /\ tree.children[1].children = << >>
        /\ tree.children[1].value.name = versions[2].name
        /\ tree.children[1].value.added = Cardinality(DOMAIN versions[2].files)
        /\ tree.children[1].value.deleted = 0
        /\ tree.children[1].value.modified = 0

\* C19 witness: the single snapshot has two files, one of them empty.
C19_Witness ==
    /\ Returned
    /\ n = 2
    /\ versions[2].files = TwoFiles(Txt(<< >>), Txt(<<"l2">>))
    /\ tree.children[1].value.added = 2


IdenticalPair ==
    /\ n = 3
    /\ versions[2].files = versions[3].files
    /\ versions[2].name # versions[3].name

\* Empty -> one -> other, the second without changes
Chain ==
    /\ tree.value.name = "Empty"
    /\ Len(tree.children) = 1
    /\ Len(tree.children[1].children) = 1
    /\ tree.children[1].children[1].children = << >>
    /\ {tree.children[1].value.name, tree.children[1].children[1].value.name} =
          {versions[2].name, versions[3].name}
    /\ NoChanges(tree.children[1].children[1].value)

\* Empty -> {one, other}
Star ==
    /\ tree.value.name = "Empty"
    /\ Len(tree.children) = 2
    /\ \A k \in 1 .. 2 : tree.children[k].children = << >>
    /\ {tree.children[1].value.name, tree.children[2].value.name} =
          {versions[2].name, versions[3].name}

C20_StarOfEmptySnapshots ==
    /\ Returned
    /\ IdenticalPair
    /\ versions[2].files = << >>
    /\ Star


(***************************************************************************)
(* Edges between real snapshots (Spec).                                    *)
(***************************************************************************)
Real == 1 .. (n - 1)
RealEdge == \E j \in Real : msa[j] # None /\ msa[j][1] # 0

\* C21 as stated: with two snapshots or more, some snapshot has a real
\* snapshot for its parent.
C21_RealEdgeExists == Returned /\ n >= 3 => RealEdge

\* C21, amended: some snapshot has a real parent when some snapshot is
\* cheaper to reach from another snapshot than from Empty; when every
\* snapshot is cheaper to reach from Empty than from any other snapshot,
\* all of them are children of Empty.
C21_RealEdgeWhenCheaper ==
    Returned /\ n >= 3 =>
        /\ (\E i, j \in Real : i # j /\ divergences[<<i, j>>] < divergences[<<0, j>>])
              => RealEdge
        /\ (\A i, j \in Real : i # j => divergences[<<i, j>>] > divergences[<<0, j>>])
              => ~RealEdge

\* C21 witness: version_2 adds a file to version_1 and hangs under it.
C21_Witness ==
    /\ Returned
    /\ n = 3
    /\ divergences[<<1, 2>>] < divergences[<<0, 2>>]
    /\ msa[2] = Some(1)
    /\ RealEdge

\* two snapshots with no path in common, both children of Empty
C21_DisjointSnapshots ==
    /\ Returned
    /\ n = 3
    /\ DOMAIN versions[2].files # {}
    /\ DOMAIN versions[2].files \cap DOMAIN versions[3].files = {}
    /\ ~RealEdge


(***************************************************************************)
(* The handcrafted scenarios (SpecHandcrafted).                            *)
(***************************************************************************)
Leaf(value) == TreeNode(value, << >>)

\* the expected trees of the two tests
Expected1 ==
    TreeNode("Empty", <<TreeNode("version_1",
        <<TreeNode("version_2a", <<Leaf("version_3")>>), Leaf("version_2b")>>)>>)
Expected1Swapped ==
    TreeNode("Empty", <<TreeNode("version_1",
        <<Leaf("version_2b"), TreeNode("version_2a", <<Leaf("version_3")>>)>>)>>)
Expected2 ==
    TreeNode("Empty", <<TreeNode("version_1",
        <<TreeNode("version_2", <<TreeNode("version_3", <<Leaf("version_4")>>)>>)>>)>>)

\* C22: the four versions of one file come out as the chain Empty ->
\* version_1 -> version_2 -> version_3 -> version_4, and the two-file
\* scenario as Empty -> version_1 -> {version_2a -> version_3, version_2b},
\* the two children of version_1 in either order; assert_eq! of the tests
\* accepts the tree.
C22_HandcraftedRecovered ==
    Returned =>
        IF \E k \in DOMAIN versions : versions[k].name = "version_4"
        THEN name_tree(tree) = Expected2 /\ TreeEq(name_tree(tree), Expected2)
        ELSE /\ name_tree(tree) \in {Expected1, Expected1Swapped}
             /\ TreeEq(name_tree(tree), Expected1)

\* C22 witness: both scenarios were inferred, the second from the directories
\* in reverse order.
C22_Witness ==
    /\ Returned
    /\ multithreading
    /\ versions[2].name = "version_3"
    /\ name_tree(tree) = Expected1Swapped

(***************************************************************************)
(* vhi git-gen on its own (SpecGit): build_instruction_trees and           *)
(* gen_git_repo on the version trees load_version_tree can return, every   *)
(* shape over up to MaxNodes versions below Empty.                         *)
(***************************************************************************)
MaxNodes == 4

\* a parent vector with vertex 0 for its only root and without a cycle
RECURSIVE ReachesRoot(_, _, _)
ReachesRoot(parents, v, fuel) ==
    IF parents[v] = None THEN TRUE
    ELSE IF fuel = 0 THEN FALSE
    ELSE ReachesRoot(parents, parents[v][1], fuel - 1)

RootedVectors(k) ==
    {p \in ParentVectors(k) :
        /\ \A v \in Idx(k) : (p[v] = None) <=> (v = 0)
        /\ \A v \in Idx(k) : ReachesRoot(p, v, k)}

\* distinct names; the last version named as the first; the last version
\* named as the branch of the initial commit
GitSchemes == {"distinct", "duplicate", "main"}

VersionNames(scheme, k) ==
    [v \in Idx(k) |-> IF v = 0 THEN "Empty"
                      ELSE IF v = k - 1 /\ scheme = "main" THEN MAIN_BRANCH
                      ELSE NameOf(scheme, k - 1, v)]

VersionTrees ==
    UNION {{map_with_parent(assemble_forest(p, k, None)[1],
                            [e \in Idx(k) \X Options(k) |->
                                DiffInfo(VersionNames(scheme, k)[e[1]], DivCalcResult_new)],
                            None) :
                p \in RootedVectors(k), scheme \in GitSchemes} :
           k \in 1 .. (MaxNodes + 1)}

GitInit ==
    /\ pc = "loaded"
    /\ NoRun
    /\ runs = << >>
    /\ operands = << >>
    /\ verdict = << >>
    /\ version_tree_json = None
    /\ version_tree \in VersionTrees
    /\ NoGit

\* git_gen's call of build_instruction_trees, with its assertion on the root
Build ==
    /\ pc = "loaded"
    /\ IF version_tree.value.name = "Empty"
       THEN /\ instruction_trees' = build_instruction_trees(version_tree)
            /\ pc' = "built"
       ELSE /\ instruction_trees' = instruction_trees
            /\ pc' = "panic"
    /\ UNCHANGED <<run_vars, runs, operands, verdict, version_tree_json, version_tree,
                   repo, stack>>

\* gen_git_repo up to its loop over the instruction trees
InitRepo ==
    /\ pc = "built"
    /\ repo' = Repository_init
    /\ stack' = [k \in DOMAIN instruction_trees |-> Frame(instruction_trees[k], MAIN_BRANCH)]
    /\ pc' = "execute"
    /\ UNCHANGED <<run_vars, runs, operands, verdict, version_tree_json, version_tree,
                   instruction_trees>>

\* as ChildFrames, but the children in the order they are stored
ChildFramesForward(node, curr_branch) ==
    [k \in DOMAIN node.children |-> Frame(node.children[k], curr_branch)]

\* for child in node.children.iter().rev()
ChildFrames(node, curr_branch) ==
    [k \in DOMAIN node.children |->
        Frame(node.children[Len(node.children) + 1 - k], curr_branch)]

\* one call of execute_tree up to its recursive calls; an error of
\* create_branch ends gen_git_repo
execute_tree ==
    /\ pc = "execute"
    /\ stack # << >>
    /\ LET node == Head(stack).node
           orig_branch == Head(stack).orig_branch
           at_orig == goto_branch(repo, orig_branch)
       IN IF node.value.op = "CreateBranch" /\ create_branch_fails(at_orig, node.value.branch)
          THEN /\ repo' = at_orig
               /\ stack' = << >>
               /\ pc' = "git_error"
          ELSE LET curr_branch == IF node.value.op = "CreateBranch"
                                  THEN node.value.branch ELSE orig_branch
                   at_curr == IF node.value.op = "CreateBranch"
                              THEN create_branch(at_orig, node.value.branch) ELSE at_orig
               IN /\ repo' = commit_all(at_curr, node.value.version)
                  /\ stack' = ChildFrames(node, curr_branch) \o Tail(stack)
                  /\ pc' = "execute"
    /\ UNCHANGED <<run_vars, runs, operands, verdict, version_tree_json, version_tree,
                   instruction_trees>>

\* gen_git_repo returns Ok(())
Generated ==
    /\ pc = "execute"
    /\ stack = << >>
    /\ pc' = "generated"
    /\ UNCHANGED <<run_vars, runs, operands, verdict, version_tree_json, version_tree, git_vars>>

GitNext == Build \/ InitRepo \/ execute_tree \/ Generated

SpecGit == GitInit /\ [][GitNext]_vars

(***************************************************************************)
(* C23: the instruction trees against the version tree.                    *)
(***************************************************************************)
Built == pc \in {"built", "execute", "generated", "git_error"}

\* the number of edges on the longest path from a node down to a leaf
RECURSIVE Height(_)
Height(node) ==
    IF node.children = << >> THEN 0
    ELSE 1 + (CHOOSE h \in {Height(node.children[k]) : k \in DOMAIN node.children} :
                \A k \in DOMAIN node.children : Height(node.children[k]) <= h)

Deepest(node) ==
    {k \in DOMAIN node.children : Height(node.children[k]) + 1 = Height(node)}

\* the names of the leaves reached from a node by going to a deepest child
\* at every step
RECURSIVE DeepLeaves(_)
DeepLeaves(node) ==
    IF node.children = << >> THEN {node.value.name}
    ELSE UNION {DeepLeaves(node.children[k]) : k \in Deepest(node)}

\* the leaf an instruction node's chain of CreateCommit children ends at
RECURSIVE CommitLeaf(_)
CommitLeaf(inode) ==
    IF inode.children = << >> THEN inode.value.version ELSE CommitLeaf(inode.children[1])

Bijections(S, T) == {f \in [S -> T] : \A t \in T : \E s \in S : f[s] = t}

\* an instruction node is the translation of a version node: the same version,
\* as many children, the first a CreateCommit for a deepest child, the others
\* CreateBranches named after their deepest leaves
RECURSIVE Translates(_, _)
Translates(inode, vnode) ==
    /\ inode.value.version = vnode.value.name
    /\ Len(inode.children) = Len(vnode.children)
    /\ vnode.children # << >> =>
        \E f \in Bijections(DOMAIN inode.children, DOMAIN vnode.children) :
            /\ f[1] \in Deepest(vnode)
            /\ \A k \in DOMAIN inode.children :
                /\ Translates(inode.children[k], vnode.children[f[k]])
                /\ IF k = 1
                   THEN inode.children[k].value = CreateCommit(vnode.children[f[k]].value.name)
                   ELSE /\ inode.children[k].value.op = "CreateBranch"
                        /\ inode.children[k].value.branch \in DeepLeaves(vnode.children[f[k]])
                        /\ inode.children[k].value.branch = CommitLeaf(inode.children[k])

InstructionVersions == [k \in DOMAIN ForestValues(instruction_trees) |->
                           ForestValues(instruction_trees)[k].version]

VersionTreeNames == [k \in DOMAIN ForestValues(version_tree.children) |->
                        ForestValues(version_tree.children)[k].name]

\* C23: once build_instruction_trees has returned, every child of Empty has
\* become a CreateBranch in the same place; below it every version node with
\* children has exactly one child, one with a deepest subtree, turned into a
\* CreateCommit that comes first, and every other child into a CreateBranch
\* named after the leaf at the end of its chain of deepest children; and the
\* version names of the instructions are the names of the versions other
\* than Empty, each as often as it is in the version tree (exactly once when
\* the names are unique).
C23_InstructionTrees ==
    Built =>
        /\ Len(instruction_trees) = Len(version_tree.children)
        /\ \A k \in DOMAIN instruction_trees :
            /\ instruction_trees[k].value.op = "CreateBranch"
            /\ instruction_trees[k].value.branch = CommitLeaf(instruction_trees[k])
            /\ Translates(instruction_trees[k], version_tree.children[k])
        /\ \A k \in DOMAIN InstructionVersions :
            Occurrences(InstructionVersions, InstructionVersions[k])
                = Occurrences(VersionTreeNames, InstructionVersions[k])
        /\ Len(InstructionVersions) = Len(VersionTreeNames)

\* a version with a leaf child before a deeper child, and one with two
\* children of the same depth after a tie was settled for the later child
C23_Witness ==
    /\ pc = "built"
    /\ \E k \in DOMAIN version_tree.children :
        LET v == version_tree.children[k]
            i == instruction_trees[k]
        IN /\ Len(v.children) = 2
           /\ Height(v.children[1]) < Height(v.children[2])
           /\ i.children[1].value = CreateCommit(v.children[2].value.name)
           /\ i.children[2].value = CreateBranch(v.children[1].value.name, v.children[1].value.name)
           /\ i.value.branch # i.value.version

C23_TieWitness ==
    /\ pc = "built"
    /\ \E k \in DOMAIN version_tree.children :
        LET v == version_tree.children[k]
        IN /\ Len(v.children) = 2
           /\ Height(v.children[1]) = Height(v.children[2])
           /\ instruction_trees[k].children[1].value.version = v.children[2].value.name

(***************************************************************************)
(* C30: the history gen_git_repo writes.                                   *)
(***************************************************************************)
RECURSIVE TreeNodes(_)
RECURSIVE ForestNodes(_)
TreeNodes(node) == <<node>> \o ForestNodes(node.children)
ForestNodes(f) == IF f = << >> THEN << >> ELSE TreeNodes(Head(f)) \o ForestNodes(Tail(f))

Range(sq) == {sq[k] : k \in DOMAIN sq}

UniqueTreeNames ==
    \A k \in DOMAIN TreeValues(version_tree) :
        Occurrences([j \in DOMAIN TreeValues(version_tree) |-> TreeValues(version_tree)[j].name],
                    TreeValues(version_tree)[k].name) = 1

\* <<parent, child>> for every edge of the version tree, by name
VersionEdges ==
    UNION {{<<nd.value.name, nd.children[k].value.name>> : k \in DOMAIN nd.children} :
           nd \in Range(TreeNodes(version_tree))}

\* the commits made for a version
CommitsFor(name) == {c \in DOMAIN repo.commits : c > 1 /\ repo.commits[c].message = name}

Executing == pc \in {"execute", "generated", "git_error"}

BranchInstructions ==
    SelectSeq(ForestValues(instruction_trees), LAMBDA i : i.op = "CreateBranch")

\* C30: for a version tree with unique names, at every moment of
\* gen_git_repo's run every commit made for a version has exactly one parent,
\* the initial commit for a child of Empty and otherwise the commit of the
\* version's parent in the version tree; at every instruction node the
\* CreateCommit child has its commit only when all its CreateBranch siblings
\* have theirs; no two CreateBranch instructions name the same branch; and a
\* run that ends without error has made one commit for every version.
C30_CommitParents ==
    (Executing /\ UniqueTreeNames) =>
        /\ \A c \in DOMAIN repo.commits : c > 1 =>
            /\ Len(repo.commits[c].parents) = 1
            /\ \E e \in VersionEdges :
                /\ e[2] = repo.commits[c].message
                /\ IF e[1] = "Empty" THEN repo.commits[c].parents[1] = 1
                   ELSE repo.commits[c].parents[1] \in CommitsFor(e[1])
        /\ \A nd \in Range(ForestNodes(instruction_trees)) :
            \A k \in DOMAIN nd.children :
                /\ (k = 1) <=> (nd.children[k].value.op = "CreateCommit")
                /\ CommitsFor(nd.children[1].value.version) # {}
                    => CommitsFor(nd.children[k].value.version) # {}
        /\ \A j, k \in DOMAIN BranchInstructions :
            BranchInstructions[j].branch = BranchInstructions[k].branch => j = k
        /\ pc = "generated" =>
            \A e \in VersionEdges : Cardinality(CommitsFor(e[2])) = 1

\* a finished run on a tree where a version has a leaf and a deeper child:
\* the side branch was cut before the parent's branch moved on
C30_Witness ==
    /\ pc = "generated"
    /\ UniqueTreeNames
    /\ \E nd \in Range(ForestNodes(instruction_trees)) :
        /\ Len(nd.children) = 2
        /\ nd.children[1].children # << >>
        /\ \E b \in CommitsFor(nd.children[2].value.version),
              c \in CommitsFor(nd.children[1].value.version) :
            /\ b < c
            /\ repo.commits[b].parents = repo.commits[c].parents

\* with unique names and no version named as the initial branch every
\* create_branch succeeds
C30_NoGitError ==
    (UniqueTreeNames /\ \A e \in VersionEdges : e[2] # MAIN_BRANCH) => pc # "git_error"

C30_GitErrorWitness == pc = "git_error" /\ UniqueTreeNames

(***************************************************************************)
(* C24, C25, C26: the pair computations and the two matrices.              *)
(***************************************************************************)
MsaStarted == pc \in {"msa", "assemble", "map", "done", "panic"}

\* what map_op returns for the pair (i, j), from the two snapshots alone
PairResult(i, j) ==
    calculate_divergences(
        text_diff_versions(versions[i + 1], versions[j + 1], walk[i + 1], walk[j + 1]))

\* C24: the two matrices handed to find_msa are, for either value of
\* multithreading and whatever the order in which the pairs were computed,
\* the ones the snapshots determine: the cells (i, j) and (j, i) hold the
\* forward and the backward result of the pair of snapshots i and j, the
\* diagonal the null result, and nothing else has a part in them.
C24_MatricesIndependentOfSchedule ==
    pc = "msa" =>
        \A i, j \in Idx(n) :
            /\ i = j =>
                /\ div_calc_res[<<i, j>>] = DivCalcResult_new
                /\ divergences[<<i, j>>] = 0
            /\ i < j =>
                LET pair == PairResult(i, j)
                IN /\ div_calc_res[<<i, j>>] = pair[1]
                   /\ div_calc_res[<<j, i>>] = pair[2]
                   /\ divergences[<<i, j>>] = pair[1].divergence
                   /\ divergences[<<j, i>>] = pair[2].divergence

\* the matrix after a parallel run over snapshots whose pairs have
\* different results
C24_Witness ==
    /\ pc = "msa"
    /\ multithreading
    /\ n = 3
    /\ divergences[<<0, 1>>] # divergences[<<0, 2>>]
    /\ divergences[<<0, 1>>] # divergences[<<1, 2>>]
    /\ divergences[<<1, 2>>] # divergences[<<2, 1>>]

\* the results collect() returned, in the order of to_compare
Collected == [k \in DOMAIN computed |-> computed[k][1]]

\* every pair 0 <= i < j < n is computed and its two cells hold its result
AllInstalled ==
    /\ \A k \in DOMAIN computed : computed[k] # None
    /\ results = << >>
    /\ \A i, j \in Idx(n) : i < j =>
        \E k \in DOMAIN computed :
            /\ Collected[k][1] = i /\ Collected[k][2] = j
            /\ div_calc_res[<<i, j>>] = Collected[k][3][1]
            /\ div_calc_res[<<j, i>>] = Collected[k][3][2]
            /\ divergences[<<i, j>>] = Collected[k][3][1].divergence
            /\ divergences[<<j, i>>] = Collected[k][3][2].divergence

\* C25: a step takes the run to the MSA call only when every pair i < j has
\* been computed and both its cells are installed, and from the MSA call on
\* no step changes a cell of either matrix, computes a pair (no worker is
\* left with the snapshots) or changes the snapshots.
C25_MsaAfterAllPairs ==
    [][/\ (pc' \in {"msa", "assemble", "map", "done", "panic"}) => AllInstalled'
       /\ MsaStarted =>
            /\ divergences' = divergences
            /\ div_calc_res' = div_calc_res
            /\ computed' = computed
            /\ versions' = versions]_vars

\* find_msa has returned for three snapshots after a parallel comparison
C25_Witness ==
    /\ pc = "assemble"
    /\ multithreading
    /\ n = 3
    /\ AllInstalled
    /\ msa # << >>

\* the cells one result is written to: (i, j) forward, (j, i) backward
CellsOf(result) == {<<result[1], result[2]>>, <<result[2], result[1]>>}

OffDiagonal == {e \in Idx(n) \X Idx(n) : e[1] # e[2]}

\* the results installed so far: those collected without the ones waiting
InstalledSoFar == SubSeq(Collected, 1, Len(Collected) - Len(results))

\* C26: to_compare holds the n(n-1)/2 pairs i < j, each once; a pair is
\* computed once, by a step that fills its empty place in the results; the
\* results write pairwise disjoint cells, (i, j) with the forward and (j, i)
\* with the backward result of the pair i < j, which together are the
\* off-diagonal cells; and a turn of the installing loop writes the two cells
\* of one result, which no earlier turn has written, and no other cell.
C26_EachCellOnce ==
    [][/\ pc' # "start" =>
            /\ 2 * Len(to_compare') = n' * (n' - 1)
            /\ Range(to_compare') = {e \in Idx(n') \X Idx(n') : e[1] < e[2]}
       /\ computed' # computed /\ pc = "compare" =>
            \E k \in DOMAIN computed :
                /\ computed[k] = None
                /\ computed'[k] # None
                /\ computed'[k][1][1] = to_compare[k][1]
                /\ computed'[k][1][2] = to_compare[k][2]
                /\ \A h \in DOMAIN computed : h # k => computed'[h] = computed[h]
       /\ pc' = "install" =>
            /\ \A h, k \in DOMAIN Collected' :
                h # k => CellsOf(Collected'[h]) \cap CellsOf(Collected'[k]) = {}
            /\ UNION {CellsOf(Collected'[k]) : k \in DOMAIN Collected'} = OffDiagonal'
            /\ \A k \in DOMAIN Collected' : Collected'[k][1] < Collected'[k][2]
       /\ pc = "install" /\ pc' = "install" =>
            /\ results' = Tail(results)
            /\ \A k \in DOMAIN InstalledSoFar :
                CellsOf(InstalledSoFar[k]) \cap CellsOf(Head(results)) = {}
            /\ div_calc_res'[<<Head(results)[1], Head(results)[2]>>] = Head(results)[3][1]
            /\ div_calc_res'[<<Head(results)[2], Head(results)[1]>>] = Head(results)[3][2]
            /\ \A e \in Idx(n) \X Idx(n) :
                e \notin CellsOf(Head(results)) =>
                    /\ div_calc_res'[e] = div_calc_res[e]
                    /\ divergences'[e] = divergences[e]]_vars

\* the installing loop is over for three snapshots: three results, six cells
C26_Witness ==
    /\ pc = "msa"
    /\ n = 3
    /\ Len(to_compare) = 3
    /\ Cardinality(UNION {CellsOf(Collected[k]) : k \in DOMAIN Collected}) = 6
    /\ div_calc_res[<<2, 1>>] = Collected[3][3][2]
    /\ div_calc_res[<<2, 1>>] # div_calc_res[<<1, 2>>]

(***************************************************************************)
(* C27: the row and the column of Empty.                                   *)
(***************************************************************************)
\* the diff map_op took for the pair (0, j)
FromEmpty(j) == text_diff_versions(versions[1], versions[j + 1], walk[1], walk[j + 1])

LinesOf(file) == Len(TextOrEmpty(file))

CappedLines(j, factor) ==
    SumOver(DOMAIN versions[j + 1].files,
            [p \in DOMAIN versions[j + 1].files |->
                factor * Min(LinesOf(versions[j + 1].files[p]), LINE_CAP)])

\* C27: when the matrices are complete, for every real snapshot j the diff
\* from Empty has nothing under
\* deleted and modified and has every file of j once under added, with one
\* Insert for each of its lines and no Delete; and, to the nearest hundredth
\* and in hundredths, D[0][j] is 200 for each file plus 2 for each of its
\* lines up to 50, and D[j][0] is 400 for each file plus 5 for each of its
\* lines up to 50.
C27_EmptyRowAndColumn ==
    pc = "msa" =>
        \A j \in 1 .. (n - 1) :
            LET d == FromEmpty(j)
                files == versions[j + 1].files
            IN /\ d.deleted_files = << >>
               /\ d.modified_files = << >>
               /\ Len(d.added_files) = Cardinality(DOMAIN files)
               /\ {d.added_files[k].filename : k \in DOMAIN d.added_files} = DOMAIN files
               /\ \A k \in DOMAIN d.added_files :
                    /\ DelOf(d.added_files[k]) = 0
                    /\ InsOf(d.added_files[k]) = Len(d.added_files[k].changes)
                    /\ InsOf(d.added_files[k]) = LinesOf(files[d.added_files[k].filename])
                    /\ \A h \in DOMAIN d.added_files[k].changes :
                        d.added_files[k].changes[h].value
                            = TextOrEmpty(files[d.added_files[k].filename])[h]
               /\ div_calc_res[<<0, j>>].added = Cardinality(DOMAIN files)
               /\ div_calc_res[<<0, j>>].deleted = 0
               /\ div_calc_res[<<0, j>>].modified = 0
               /\ Hundredths(divergences[<<0, j>>])
                    = 200 * Cardinality(DOMAIN files) + CappedLines(j, 2)
               /\ Hundredths(divergences[<<j, 0>>])
                    = 400 * Cardinality(DOMAIN files) + CappedLines(j, 5)

\* a snapshot of two files, one of them with a line: 4.02 from Empty and
\* 8.05 back
C27_Witness ==
    /\ pc = "msa"
    /\ \E j \in 1 .. (n - 1) :
        /\ Cardinality(DOMAIN versions[j + 1].files) = 2
        /\ CappedLines(j, 1) = 1
        /\ Hundredths(divergences[<<0, j>>]) = 402
        /\ Hundredths(divergences[<<j, 0>>]) = 805

(***************************************************************************)
(* C28: assemble_forest on parent vectors that are not trees (SpecForest). *)
(***************************************************************************)
Assembled == pc \in {"map", "done", "panic"}

\* the vertex's chain of parent pointers ends at an entry without parent
ReachesParentLess(v) == ReachesRoot(msa, v, n)

\* the vertex's chain of parent pointers comes back to the vertex
RECURSIVE ComesBack(_, _, _)
ComesBack(v, at, fuel) ==
    IF msa[at] = None \/ fuel = 0 THEN FALSE
    ELSE IF msa[at][1] = v THEN TRUE
    ELSE ComesBack(v, msa[at][1], fuel - 1)

OnCycle(v) == ComesBack(v, v, n)

\* C28: for every parent vector, with cycles, self-parents and several
\* parent-less entries among them, assemble_forest(parents, None) returns,
\* and the forest holds each vertex whose chain of parent pointers ends at a
\* parent-less entry exactly once and no other vertex; the vertices on or
\* below a cycle are left out, and the run goes on past the single-root
\* assertion whenever exactly one entry is parent-less, whether or not
\* vertices were left out.
C28_ForestOfReachableVertices ==
    Assembled =>
        /\ \A v \in Idx(n) :
            Occurrences(ForestValues(forest), v) = IF ReachesParentLess(v) THEN 1 ELSE 0
        /\ Len(ForestValues(forest)) = Cardinality({v \in Idx(n) : ReachesParentLess(v)})
        /\ Len(forest) = Cardinality({v \in Idx(n) : msa[v] = None})
        /\ \A v \in Idx(n) : OnCycle(v) => ~ReachesParentLess(v)
        /\ (pc # "panic") <=> (Cardinality({v \in Idx(n) : msa[v] = None}) = 1)

\* the run ended with a tree although one vertex is its own parent and
\* another hangs below it
C28_Witness ==
    /\ pc = "done"
    /\ n = 3
    /\ \E v, w \in Idx(n) :
        /\ v # w
        /\ msa[v] = Some(v)
        /\ msa[w] = Some(v)
        /\ OnCycle(v) /\ ~OnCycle(w)
        /\ Occurrences(ForestValues(forest), v) = 0
        /\ Occurrences(ForestValues(forest), w) = 0
    /\ Len(ForestValues(forest)) = 1

\* a cycle of two vertices is left out just as silently
C28_TwoCycleWitness ==
    /\ pc = "done"
    /\ msa = [v \in Idx(3) |-> IF v = 0 THEN None ELSE Some(3 - v)]
    /\ ForestValues(forest) = <<0>>

(***************************************************************************)
(* C29: growth costs less forward than backward (SpecDiff).                *)
(***************************************************************************)
Changed(d) == d.added_files \o d.deleted_files \o d.modified_files

\* new comes from old by adding files and inserting lines only
GrownFrom(old, new) ==
    /\ DOMAIN old.files \subseteq DOMAIN new.files
    /\ \A p \in DOMAIN old.files :
        Lcs(TextOrEmpty(old.files[p]), TextOrEmpty(new.files[p]))
            = Len(TextOrEmpty(old.files[p]))
    /\ \/ DOMAIN new.files # DOMAIN old.files
       \/ \E p \in DOMAIN old.files :
            Len(TextOrEmpty(new.files[p])) > Len(TextOrEmpty(old.files[p]))

\* the diff holds additions only, and at least one
OnlyGrowth(d) ==
    /\ d.deleted_files = << >>
    /\ \A k \in DOMAIN Changed(d) : DelOf(Changed(d)[k]) = 0
    /\ d.added_files # << >> \/ \E k \in DOMAIN Changed(d) : InsOf(Changed(d)[k]) > 0

\* C29: when the new snapshot comes from the old one by adding files and
\* inserting lines only, at least one of them, the diff holds no deleted file
\* and no Delete and the stored forward divergence is smaller than the
\* stored backward divergence; and for every diff, with both divergences
\* taken to the nearest hundredth and in hundredths, forward - backward is
\* -200 (A - D) - 3 * the sum over the changed files of
\* min(ins, 50) - min(del, 50).
C29_GrowthIsCheaperForward ==
    pc = "scored" =>
        /\ (versions # << >> /\ GrownFrom(versions[1], versions[2])) => OnlyGrowth(text_diff)
        /\ OnlyGrowth(text_diff) => div_res[1].divergence < div_res[2].divergence
        /\ Hundredths(div_res[1].divergence) - Hundredths(div_res[2].divergence)
             = - 200 * (Len(text_diff.added_files) - Len(text_diff.deleted_files))
               - 3 * (LineSum(text_diff, 1, 0) - LineSum(text_diff, 0, 1))

\* a snapshot grown by one file and by one line in the file it had
C29_Witness ==
    /\ pc = "scored"
    /\ versions # << >>
    /\ GrownFrom(versions[1], versions[2])
    /\ Len(text_diff.added_files) = 1
    /\ Len(text_diff.modified_files) = 1
    /\ InsOf(text_diff.modified_files[1]) = 1
    /\ Hundredths(div_res[1].divergence) = 302
    /\ Hundredths(div_res[2].divergence) = 505

\* growth beyond the cap of 50 lines in a modified file
C29_CapWitness ==
    /\ pc = "scored"
    /\ OnlyGrowth(text_diff)
    /\ text_diff.added_files = << >>
    /\ Len(text_diff.modified_files) = 1
    /\ InsOf(text_diff.modified_files[1]) > LINE_CAP
    /\ Hundredths(div_res[2].divergence) - Hundredths(div_res[1].divergence) = 150
====
